---- MODULE Spec2Model ----
(***************************************************************************)
(* State-machine model of one memory session: the session facade, the      *)
(* episode manager, the ingestion pipeline, the recall pipeline, the       *)
(* reflection runner and the in-memory storage backend.                    *)
(*                                                                         *)
(* Identifiers are small integers: an episode's id is its index in         *)
(* `episodes`, a fact's id its index in `facts`, a turn's id its index in  *)
(* `turns` (uuid generation yields fresh ids; the next index is fresh).    *)
(* Scores and confidences are scaled by 10 (1.0 is 10, 0.4 is 4).          *)
(* Embedding vectors are pairs over {0,1}; the embedder and the reflector  *)
(* are external, so what they return is drawn from small sets.             *)
(***************************************************************************)
EXTENDS Integers, Sequences, FiniteSets, TLC

\* ---------------------------------------------------------------- bounds
MaxIngests == 3          \* ingest calls per behaviour (episode lifecycle)
MaxFactIngests == 4      \* ingest calls per behaviour (reflection)
MaxFacts == 3            \* facts ever persisted
MaxActions == 2          \* consolidation actions in one batch
MaxReturned == 2         \* facts returned by one legacy reflect call
MaxRestarts == 1         \* process restarts over the same storage
MaxBackgroundIngests == 6
MaxCloseCalls == 3       \* close() calls on one facade
MaxCacheSize == 2        \* largest max_size of an LRUCache
MaxCacheOps == 5         \* calls on one LRUCache
MaxBudget == 5           \* largest recall token budget tried
max_turns == 2           \* episode_boundary.max_turns of the session
max_facts_per_episode == 2 \* reflection.max_facts_per_episode

\* ---------------------------------------------------- program constants
min_episode_turns == 2   \* reflection.min_episode_turns
min_confidence == 7      \* 0.7
budget_pct_num == 2      \* current_episode_budget_pct = 0.4 = 2/5
budget_pct_den == 5
default_limit == 1000    \* get_turns_by_session(limit=1000)
close_on_tool_result == TRUE
auto_detect_markers == TRUE
reflection_enabled == TRUE
chars_per_token == 4
max_content_length == 100000
max_retries == 3

\* the (role, content) pairs given to ingest
TurnInputs == {<<"user", "hi">>, <<"user", "thanks">>, <<"tool", "Goal: ship">>}
FailModes == {"none", "embed", "save_turn"}
IngestOutcomes == FailModes \cup {"noemb"}
FactTokens == {1, 2}
Confidences == {5, 9}

\* the configuration: auto_detect_markers, max_content_length, and of the
\* reflection section
\* max_facts_per_episode and the two similarity thresholds (0.9 and 0.3 on
\* the scale of 10; a dedup_similarity_threshold of 1.0 switches
\* deduplication off)
DefaultConfig ==
  [auto_detect_markers |-> auto_detect_markers,
   max_facts_per_episode |-> max_facts_per_episode,
   max_content_length |-> max_content_length,
   dedup_similarity_threshold |-> 9,
   consolidation_similarity_threshold |-> 3]

NoRecall == [called |-> FALSE, budget |-> 0, items |-> <<>>]

NoCall == [entry |-> "none", turns |-> <<>>]
NoLog == [skipped |-> 0, fallback |-> FALSE]

\* no LRUCache constructed yet; `used` of an entry is the time of its last
\* put or successful get, `evicted` the keys the last call evicted
NoCache == [max_size |-> 0, entries |-> <<>>, clock |-> 0, evicted |-> {}]

\* two coroutines, neither started
TaskIds == {1, 2}
IdleTask == [pc |-> "idle", role |-> "", content |-> "", position |-> 0,
             episode |-> 0, prior |-> {}, source |-> 0, saved |-> 0]
NoTasks == [t \in TaskIds |-> IdleTask]

\* close() was not called on this facade
NoClose == [calls |-> 0, storage_closes |-> 0]

\* no provider call in progress
NoRetry == [status |-> "idle", attempt |-> 0, max_attempts |-> 0,
            outcomes |-> <<>>, error |-> "none"]

NoSup == [kind |-> "none", ref |-> 0]
SupFact(id) == [kind |-> "fact", ref |-> id]
RemovedBy(ep) == [kind |-> "removed", ref |-> ep]

VARIABLES
  phase,          \* facade: "new" | "ready" | "closed" | "unopened"
  episodes,       \* storage: sequence of episode records (id = index)
  turns,          \* storage: sequence of persisted turns, in creation order
  facts,          \* storage: sequence of fact records (id = index)
  current,        \* episode manager: id of _current_episode, 0 for None
  lastTurnSet,    \* episode manager: _last_turn_time is not None
  turnPosition,   \* ingestion pipeline: _turn_position
  carried,        \* reflection runner: _carried_turns (turn ids)
  rpc,            \* reflection runner: "idle" | "consolidate" | "reflect" |
                  \*   "apply" | "legacy" (where _reflect_and_save stands)
  rleft,          \* reflection runner: actions / facts still to process
  rprior,         \* reflection runner: ids of the scoped prior facts
  repisode,       \* reflection runner: episode being reflected on
  pendingReflect, \* episode just closed whose reflection has not run yet
  recallResult,   \* items returned by the last recall
  ingests,        \* number of ingest calls so far
  restarts,       \* number of restarts so far
  unsaved,        \* per episode: turns / tokens assigned but never persisted
  onClose,        \* episode manager: _on_episode_closed is not None
  callbackLog,    \* episode ids the on-close callback was invoked with
  retry,          \* the provider call under with_retry: attempt, outcomes so far
  closeLog,       \* close() calls on the facade and storage.close() calls they made
  cache,          \* an LRUCache: its OrderedDict, oldest entry first
  tasks,          \* the coroutines running concurrently on the session: where each
                  \*   is suspended and its local variables
  raised,         \* the last call ended by raising an exception
  exception,      \* the class of that exception, "none" after a call that returned
  rcall,          \* reflection runner: the running _reflect_and_save call
                  \*   (the entry point that made it, the turns it was given)
  rlog,           \* reflection runner: the warnings the running call has
                  \*   logged (actions skipped for an unknown fact id, the
                  \*   fall-back to the legacy path)
  config          \* the configuration object the session was constructed with

vars == <<phase, episodes, turns, facts, current, lastTurnSet, turnPosition,
          carried, rpc, rleft, rprior, repisode, pendingReflect,
          recallResult, ingests, restarts, unsaved, onClose, callbackLog,
          raised, exception, rcall, rlog, config, retry, closeLog,
          cache, tasks>>

storageVars == <<episodes, turns, facts>>
runnerVars == <<carried, rpc, rleft, rprior, repisode, rcall, rlog>>
managerVars == <<onClose, callbackLog>>

\* ------------------------------------------------------- pure helpers
Min(a, b) == IF a <= b THEN a ELSE b
Max(a, b) == IF a >= b THEN a ELSE b

ContentLen(c) ==
  CASE c = "hi" -> 2
    [] c = "Goal: ship" -> 10
    [] c = "thanks" -> 6
    [] c = "Goal: ship it now" -> 17
    [] c = "" -> 0

\* HeuristicTokenCounter.count
TokenCount(c) ==
  IF ContentLen(c) = 0 THEN 0 ELSE Max(1, ContentLen(c) \div chars_per_token)

\* detect_markers: the content matching the goal pattern at its start
detect_markers(c) == IF c = "Goal: ship" THEN <<"goal">> ELSE <<>>

\* list(dict.fromkeys(ms)): the first occurrence of every element, in order
unique_in_order(ms) ==
  LET first == {i \in 1..Len(ms) : \A j \in 1..(i - 1) : ms[j] # ms[i]}
  IN [k \in 1..Cardinality(first) |->
        ms[CHOOSE i \in first : Cardinality({j \in first : j < i}) = k - 1]]

\* a merge that adds the detected markers to the explicit ones
merge_markers_AddsDetected(explicit, detected) ==
  unique_in_order(explicit \o detected)

\* merge_markers
merge_markers(explicit, detected) ==
  IF explicit # <<>> THEN unique_in_order(explicit) ELSE unique_in_order(detected)

\* EpisodeBoundaryConfig.should_close_on_content (default closure pattern)
should_close_on_content(c) == c = "thanks"

\* the embedder: a deterministic map from text to a vector
Embed(c) ==
  CASE c = "hi" -> <<1, 0>>
    [] c = "Goal: ship" -> <<0, 1>>
    [] c = "thanks" -> <<1, 0>>
    [] c = "Goal: ship it now" -> <<0, 1>>

\* cosine similarity (scaled by 10) of vectors over {0,1}^2 with norm <= 1:
\* 0 when the dimensions differ or a vector has zero magnitude
cosine_similarity(a, b) ==
  IF Len(a) # Len(b) \/ Len(a) = 0 THEN 0
  ELSE LET dot == a[1] * b[1] + a[2] * b[2]
           na == a[1] * a[1] + a[2] * a[2]
           nb == b[1] * b[1] + b[2] * b[2]
       IN IF na = 0 \/ nb = 0 THEN 0 ELSE 10 * dot

\* get_marker_weight / calculate_marker_boost with the default weights
marker_weight(m) ==
  CASE m = "constraint" -> 4
    [] m = "decision" -> 3
    [] m = "goal" -> 3
    [] m = "failure" -> 2
    [] OTHER -> 2

RECURSIVE calculate_marker_boost(_)
calculate_marker_boost(ms) ==
  IF ms = <<>> THEN 0
  ELSE marker_weight(Head(ms)) + calculate_marker_boost(Tail(ms))

\* ------------------------------------------------------ storage queries
Indices(s) == 1..Len(s)

\* the episode query without the status filter
OpenEpisodes_AnyStatus == Indices(episodes)

\* get_episodes(session, status=OPEN): ids of the open episodes, oldest first
OpenEpisodes == {e \in Indices(episodes) : episodes[e].status = "open"}

\* the result list of a query over a stored collection: the selected ids
\* in storage (creation) order
Ascending(hits) ==
  [k \in 1..Cardinality(hits) |->
     CHOOSE x \in hits : Cardinality({y \in hits : y < x}) = k - 1]

\* get_turns_by_session(session, limit): at most `limit` turns
get_turns_by_session(limit) ==
  IF Len(turns) <= limit THEN turns ELSE SubSeq(turns, 1, limit)

\* stable insertion of index i into a list of indices ordered by position
RECURSIVE InsertByPosition(_, _)
InsertByPosition(i, s) ==
  IF s = <<>> THEN <<i>>
  ELSE IF turns[Head(s)].position <= turns[i].position
       THEN <<Head(s)>> \o InsertByPosition(i, Tail(s))
       ELSE <<i>> \o s

RECURSIVE SortByPosition(_)
SortByPosition(s) ==
  IF s = <<>> THEN <<>>
  ELSE InsertByPosition(s[Len(s)], SortByPosition(SubSeq(s, 1, Len(s) - 1)))

\* get_turns_by_episode: ids of the episode's turns ordered by position
get_turns_by_episode(e) ==
  SortByPosition(Ascending({i \in Indices(turns) : turns[i].episode_id = e}))

\* the query without the superseded_by filter (get_facts_by_session)
get_active_facts_AllFacts ==
  Ascending(Indices(facts))

\* get_active_facts_by_session: ids of facts with superseded_by unset
get_active_facts_by_session ==
  Ascending({f \in Indices(facts) : facts[f].superseded_by = NoSup})

\* get_marked_turns(session, exclude_episode_id)
get_marked_turns(exclude) ==
  Ascending({i \in Indices(turns) :
               /\ turns[i].markers # <<>>
               /\ (exclude = 0 \/ turns[i].episode_id # exclude)})

Range(s) == {s[i] : i \in 1..Len(s)}

\* ------------------------------------------------------------- initial
\* the state after the facade is constructed with configuration `cfg` over
\* an empty storage
InitSession(cfg) ==
  /\ phase = "new"
  /\ episodes = <<>>
  /\ turns = <<>>
  /\ facts = <<>>
  /\ current = 0
  /\ lastTurnSet = FALSE
  /\ turnPosition = 0
  /\ carried = <<>>
  /\ rpc = "idle"
  /\ rleft = 0
  /\ rprior = {}
  /\ repisode = 0
  /\ pendingReflect = 0
  /\ recallResult = NoRecall
  /\ ingests = 0
  /\ restarts = 0
  /\ unsaved = <<>>
  /\ onClose = FALSE
  /\ callbackLog = <<>>
  /\ raised = FALSE
  /\ exception = "none"
  /\ rcall = NoCall
  /\ rlog = NoLog
  /\ config = cfg
  /\ retry = NoRetry
  /\ closeLog = NoClose
  /\ cache = NoCache
  /\ tasks = NoTasks

\* the default configuration
Init == InitSession(DefaultConfig)

\* either setting of auto_detect_markers
InitConfigs ==
  \E auto \in BOOLEAN :
    InitSession([DefaultConfig EXCEPT !.auto_detect_markers = auto])

NewEpisode ==
  [status |-> "open", turn_count |-> 0, total_tokens |-> 0,
   markers |-> <<>>, close_reason |-> "none"]

\* ---------------------------------------------------- facade.initialize
\* an initialize that creates its episode without looking for an open one
InitializeWith_AlwaysCreates(register) ==
  /\ phase = "new"
  /\ rpc = "idle"
  /\ episodes' = Append(episodes, NewEpisode)
  /\ unsaved' = Append(unsaved, [count |-> 0, tokens |-> 0])
  /\ current' = Len(episodes) + 1
  /\ turnPosition' = Len(get_turns_by_session(default_limit))
  /\ phase' = "ready"
  /\ recallResult' = NoRecall
  /\ onClose' = register
  /\ raised' = FALSE
  /\ exception' = "none"
  /\ UNCHANGED <<turns, facts, runnerVars, ingests, restarts, config, tasks,
                 cache, closeLog, retry, callbackLog, lastTurnSet,
                 pendingReflect>>

\* ACMS.initialize -> EpisodeManager.initialize, IngestionPipeline.initialize;
\* `register` is whether the facade registers an on-close callback on the
\* episode manager it has just constructed.
InitializeWith(register) ==
  /\ phase = "new"
  /\ rpc = "idle"
  /\ IF OpenEpisodes # {}
       THEN LET e == CHOOSE x \in OpenEpisodes : \A y \in OpenEpisodes : x <= y
            IN /\ current' = e
               /\ lastTurnSet' = (get_turns_by_episode(e) # <<>>)
               /\ UNCHANGED <<episodes, unsaved>>
       ELSE /\ episodes' = Append(episodes, NewEpisode)
            /\ unsaved' = Append(unsaved, [count |-> 0, tokens |-> 0])
            /\ current' = Len(episodes) + 1
            /\ UNCHANGED lastTurnSet
  /\ turnPosition' = Len(get_turns_by_session(default_limit))
  /\ phase' = "ready"
  /\ UNCHANGED pendingReflect
  /\ recallResult' = NoRecall
  /\ onClose' = register
  /\ raised' = FALSE
  /\ exception' = "none"
  /\ UNCHANGED <<turns, facts, runnerVars, ingests, restarts, config, tasks, cache, closeLog, retry, callbackLog>>

\* the facade of the acms package: its initialize registers no callback, and
\* close_episode calls _run_reflection itself
InitializeACMS == InitializeWith(FALSE)

\* the facade of the gleanr package: initialize creates the episode manager
\* and registers the reflection runner as its on-close callback
Initialize == InitializeWith(TRUE)

\* ------------------------------------------------------ episode manager
\* the boundary rules with the turn limit tested one turn late
should_close_episode_LateMaxTurns(role, content, gap) ==
  /\ current # 0
  /\ \/ episodes[current].turn_count > max_turns
     \/ (lastTurnSet /\ gap)
     \/ (close_on_tool_result /\ role = "tool")
     \/ should_close_on_content(content)

\* the boundary rules without the tool-result rule
should_close_episode_NoToolRule(role, content, gap) ==
  /\ current # 0
  /\ \/ episodes[current].turn_count >= max_turns
     \/ (lastTurnSet /\ gap)
     \/ should_close_on_content(content)

\* should_close_episode(turn): the four boundary rules, first match wins
should_close_episode(role, content, gap) ==
  /\ current # 0
  /\ \/ episodes[current].turn_count >= max_turns
     \/ (lastTurnSet /\ gap)
     \/ (close_on_tool_result /\ role = "tool")
     \/ should_close_on_content(content)

\* a close that records the reason but leaves the status open
ClosedRecord_KeepsOpen(ep, reason) ==
  [ep EXCEPT !.close_reason = reason]

\* close_current_episode: the episode record as persisted by the close
ClosedRecord(ep, reason) ==
  [ep EXCEPT !.status = "closed", !.close_reason = reason]

RECURSIVE AppendNew(_, _)
AppendNew(ms, new) ==
  IF new = <<>> THEN ms
  ELSE AppendNew(IF Head(new) \in Range(ms) THEN ms ELSE Append(ms, Head(new)),
                 Tail(new))

\* a stats update that counts the turn and forgets its tokens
AssignedRecord_NoTokens(ep, tokens, markers) ==
  [ep EXCEPT !.turn_count = @ + 1,
             !.markers = AppendNew(@, markers)]

\* assign_episode: the stats update of the episode the turn is assigned to
AssignedRecord(ep, tokens, markers) ==
  [ep EXCEPT !.turn_count = @ + 1,
             !.total_tokens = @ + tokens,
             !.markers = AppendNew(@, markers)]

\* -------------------------------------------------------- facade.ingest
\* an ingest that lets the embedder's own exception through
ingest_exception_Unwrapped(fail) ==
  CASE fail = "embed" -> "RuntimeError"
    [] fail = "save_turn" -> "StorageError"
    [] fail = "callback" -> "ReflectionError"
    [] OTHER -> "none"

\* the exception that leaves ingest when step `fail` raises: a failure of the
\* embedder or of save_embedding leaves _generate_embedding as a
\* ProviderError whatever it was, save_turn raises the storage's error, and
\* the on-close callback (the reflection runner) raises ReflectionError
ingest_exception(fail) ==
  CASE fail = "embed" -> "ProviderError"
    [] fail = "save_turn" -> "StorageError"
    [] fail = "callback" -> "ReflectionError"
    [] OTHER -> "none"

\* ACMS.ingest -> IngestionPipeline.ingest -> EpisodeManager.assign_episode
\* `gap` says whether turn.created_at - _last_turn_time exceeds the maximum
\* gap; `fail` is the step after assign_episode that raises ("embed",
\* "save_turn"), "noemb" when the embedder returns no vector (the turn is
\* saved without an embedding), "callback" when the on-close callback
\* invoked by the boundary close raises, and "none" otherwise; `explicit`
\* is the markers argument.
IngestWith(role, content, explicit, gap, fail) ==
  /\ phase = "ready"
  /\ rpc = "idle"
  /\ gap => lastTurnSet
  /\ LET token_count == TokenCount(content)
         markers == IF config.auto_detect_markers
                      THEN merge_markers(explicit, detect_markers(content))
                      ELSE explicit
         closes == should_close_episode(role, content, gap)
         eps1 == IF closes
                   THEN [episodes EXCEPT ![current] = ClosedRecord(@, "boundary_rule")]
                   ELSE episodes
         cur1 == IF closes THEN 0 ELSE current
         creates == cur1 = 0
         eps2 == IF creates THEN Append(eps1, NewEpisode) ELSE eps1
         cur2 == IF creates THEN Len(eps1) + 1 ELSE cur1
         uns2 == IF creates THEN Append(unsaved, [count |-> 0, tokens |-> 0])
                 ELSE unsaved
         turn == [id |-> Len(turns) + 1,
                  episode_id |-> cur2,
                  role |-> role,
                  content |-> content,
                  markers |-> markers,
                  token_count |-> token_count,
                  position |-> turnPosition,
                  has_embedding |-> (fail # "noemb"),
                  arrival |-> current]
     IN /\ (fail = "callback") => (closes /\ onClose)
        /\ callbackLog' = IF closes /\ onClose THEN Append(callbackLog, current)
                          ELSE callbackLog
        /\ raised' = (fail \in {"embed", "save_turn", "callback"})
        /\ exception' = ingest_exception(fail)
        /\ IF fail = "callback"
             THEN \* the exception leaves close_current_episode and
                  \* assign_episode after the close was persisted
                  /\ episodes' = eps1
                  /\ current' = 0
                  /\ lastTurnSet' = FALSE
                  /\ UNCHANGED <<pendingReflect, turns, turnPosition, unsaved>>
             ELSE /\ episodes' = [eps2 EXCEPT ![cur2] =
                                    AssignedRecord(@, token_count, markers)]
                  /\ current' = cur2
                  /\ lastTurnSet' = TRUE
                  /\ pendingReflect' = IF closes /\ onClose THEN current
                                       ELSE pendingReflect
                  /\ IF fail \in {"none", "noemb"}
                       THEN /\ turns' = Append(turns, turn)
                            /\ turnPosition' = turnPosition + 1
                            /\ unsaved' = uns2
                       ELSE /\ UNCHANGED <<turns, turnPosition>>
                            /\ unsaved' = [uns2 EXCEPT ![cur2] =
                                             [count |-> @.count + 1,
                                              tokens |-> @.tokens + token_count]]
  /\ ingests' = ingests + 1
  /\ recallResult' = NoRecall
  /\ UNCHANGED <<phase, facts, runnerVars, restarts, config, tasks, cache, closeLog, retry, onClose>>

\* ------------------------------------------------------ input validation
\* An argument of ingest is a record of its Python type and its value.
Roles == {"user", "assistant", "tool"}
MarkerTypes == {"decision", "constraint", "failure", "goal"}

\* A validator gives the class of the exception it raises ("none" when it
\* returns) and the value it returns.
\* validate_role: a Role is returned as it is; anything else is lowered and
\* looked up, the ValueError of the lookup becoming a ValidationError. A
\* value without a lower method raises AttributeError, which is not caught.
validate_role(role) ==
  LET lower == IF role.value = "USER" THEN "user" ELSE role.value
  IN IF role.type = "Role" THEN [exception |-> "none", value |-> role.value]
     ELSE IF role.type # "str"
       THEN [exception |-> "AttributeError", value |-> ""]
     ELSE IF lower \in Roles THEN [exception |-> "none", value |-> lower]
     ELSE [exception |-> "ValidationError", value |-> ""]

\* validate_content: the content stripped, which must not be empty
validate_content(content) ==
  LET stripped == CASE content.value = "   " -> ""
                    [] content.value = " hi " -> "hi"
                    [] OTHER -> content.value
  IN IF content.type # "str" \/ stripped = ""
       THEN [exception |-> "ValidationError", value |-> ""]
       ELSE [exception |-> "none", value |-> stripped]

\* validate_markers: every element a MarkerType value or "custom:" followed
\* by a name (the facade turns every element into a string)
validate_markers(markers) ==
  LET startswith_custom(m) == m \in {"custom:", "custom:x"}
      len(m) == IF m = "custom:" THEN 7 ELSE 8
      valid(m) == m \in MarkerTypes \/ (startswith_custom(m) /\ len(m) > 7)
  IN IF markers.type = "NoneType" THEN [exception |-> "none", value |-> <<>>]
     ELSE IF markers.type = "list"
             /\ \A i \in 1..Len(markers.value) : valid(markers.value[i])
       THEN [exception |-> "none", value |-> markers.value]
     ELSE [exception |-> "ValidationError", value |-> <<>>]

\* validate_metadata: the value is the sequence of the types of the keys
validate_metadata(metadata) ==
  IF metadata.type = "NoneType" THEN [exception |-> "none", value |-> <<>>]
  ELSE IF metadata.type = "dict"
          /\ \A i \in 1..Len(metadata.value) : metadata.value[i] = "str"
    THEN [exception |-> "none", value |-> metadata.value]
  ELSE [exception |-> "ValidationError", value |-> <<>>]

\* IngestionPipeline.ingest, "Validate inputs" and "Check content length":
\* the class of the exception the first failing step raises, "none" when
\* every step passes
ingest_validation(call) ==
  LET r == validate_role(call.role)
      c == validate_content(call.content)
      m == validate_markers(call.markers)
      d == validate_metadata(call.metadata)
  IN IF r.exception # "none" THEN r.exception
     ELSE IF c.exception # "none" THEN c.exception
     ELSE IF m.exception # "none" THEN m.exception
     ELSE IF d.exception # "none" THEN d.exception
     ELSE IF ContentLen(c.value) > config.max_content_length
       THEN "ValidationError"
     ELSE "none"

\* ingest of unvalidated arguments: the validated values go on to the rest
\* of ingest; an exception of the validation leaves ingest before anything
\* else ran
IngestCall(call, gap, fail) ==
  IF ingest_validation(call) = "none"
    THEN IngestWith(validate_role(call.role).value,
                    validate_content(call.content).value,
                    validate_markers(call.markers).value, gap, fail)
    ELSE /\ phase = "ready"
         /\ rpc = "idle"
         /\ raised' = TRUE
         /\ exception' = ingest_validation(call)
         /\ ingests' = ingests + 1
         /\ recallResult' = NoRecall
         /\ UNCHANGED <<phase, episodes, current, lastTurnSet, pendingReflect,
                        turns,
                        turnPosition, unsaved, facts, runnerVars, restarts,
                        config, tasks, cache, closeLog, retry, managerVars>>

\* ingest without a markers argument
Ingest(role, content, gap, fail) == IngestWith(role, content, <<>>, gap, fail)

\* -------------------------------------------------- facade.close_episode
\* a close that never invokes the callback
close_current_episode_NoCallback(reason, cbRaises, reflects) ==
  /\ cbRaises => (current # 0 /\ onClose)
  /\ IF current = 0
       THEN UNCHANGED <<episodes, current, lastTurnSet, pendingReflect, callbackLog>>
       ELSE /\ episodes' = [episodes EXCEPT ![current] = ClosedRecord(@, reason)]
            /\ current' = 0
            /\ lastTurnSet' = FALSE
            /\ UNCHANGED <<callbackLog, pendingReflect>>
  /\ raised' = cbRaises
  /\ exception' = IF cbRaises THEN "ReflectionError" ELSE "none"

\* EpisodeManager.close_current_episode(reason): `cbRaises` is whether the
\* on-close callback raises; `reflects` is whether the closed episode is
\* handed on to reflection
close_current_episode(reason, cbRaises, reflects) ==
  /\ cbRaises => (current # 0 /\ onClose)
  /\ IF current = 0
       THEN UNCHANGED <<episodes, current, lastTurnSet, pendingReflect, callbackLog>>
       ELSE /\ episodes' = [episodes EXCEPT ![current] = ClosedRecord(@, reason)]
            /\ current' = 0
            /\ lastTurnSet' = FALSE
            /\ callbackLog' = IF onClose THEN Append(callbackLog, current)
                              ELSE callbackLog
            /\ pendingReflect' = IF reflects /\ ~cbRaises THEN current
                                 ELSE pendingReflect
  /\ raised' = cbRaises
  /\ exception' = IF cbRaises THEN "ReflectionError" ELSE "none"

\* ACMS.close_episode -> EpisodeManager.close_current_episode(reason); the
\* closed episode goes to reflection (through the registered callback, or
\* through _run_reflection in the acms facade)
CloseEpisode ==
  /\ phase = "ready"
  /\ rpc = "idle"
  /\ close_current_episode("manual", FALSE, TRUE)
  /\ recallResult' = NoRecall
  /\ UNCHANGED <<phase, turns, facts, turnPosition, runnerVars, ingests,
                 restarts, config, tasks, cache, closeLog, retry, unsaved, onClose>>

\* close_current_episode called on the episode manager with a callback that
\* raises
CloseCallbackRaises ==
  /\ phase = "ready"
  /\ rpc = "idle"
  /\ close_current_episode("manual", TRUE, FALSE)
  /\ recallResult' = NoRecall
  /\ UNCHANGED <<phase, turns, facts, turnPosition, runnerVars, ingests,
                 restarts, config, tasks, cache, closeLog, retry, unsaved, onClose>>

\* ----------------------------------------------------------- facade.close
\* a close that closes the episode and the storage and leaves the facade
\* usable
Close_StaysReady ==
  /\ phase = "ready"
  /\ rpc = "idle"
  /\ close_current_episode("session_close", FALSE, TRUE)
  /\ closeLog' = [calls |-> closeLog.calls + 1,
                  storage_closes |-> closeLog.storage_closes + 1]
  /\ recallResult' = NoRecall
  /\ UNCHANGED <<phase, turns, facts, turnPosition, runnerVars, ingests,
                 restarts, config, tasks, cache, retry, unsaved, onClose>>

\* ACMS.close: close_episode(reason="session_close"), then storage.close
Close ==
  /\ phase = "ready"
  /\ rpc = "idle"
  /\ close_current_episode("session_close", FALSE, TRUE)
  /\ phase' = "closed"
  /\ closeLog' = [calls |-> closeLog.calls + 1,
                  storage_closes |-> closeLog.storage_closes + 1]
  /\ recallResult' = NoRecall
  /\ UNCHANGED <<turns, facts, turnPosition, runnerVars, ingests, restarts,
                 config, tasks, cache, retry, unsaved, onClose>>

\* a close() that runs its body again on a closed facade
CloseFacade_Recloses ==
  /\ rpc = "idle"
  /\ raised' = FALSE
  /\ exception' = "none"
  /\ recallResult' = NoRecall
  /\ closeLog' = [calls |-> closeLog.calls + 1,
                  storage_closes |-> closeLog.storage_closes + 1]
  /\ phase' = IF phase = "new" THEN "unopened" ELSE "closed"
  /\ UNCHANGED <<storageVars, current, lastTurnSet, turnPosition, runnerVars,
                 pendingReflect, ingests, restarts, config, tasks, cache, retry, unsaved,
                 managerVars>>

\* ACMS.close on a facade in any state: nothing when _closed is set; the
\* episode and the storage are closed only when the facade was initialized
\* ("unopened" is a facade closed before it was initialized)
CloseFacade ==
  IF phase = "ready" THEN Close
  ELSE /\ rpc = "idle"
       /\ phase' = IF phase = "new" THEN "unopened" ELSE phase
       /\ closeLog' = [closeLog EXCEPT !.calls = @ + 1]
       /\ raised' = FALSE
       /\ exception' = "none"
       /\ recallResult' = NoRecall
       /\ UNCHANGED <<storageVars, current, lastTurnSet, turnPosition,
                      runnerVars, pendingReflect, ingests, restarts, config, tasks, cache,
                      retry, unsaved, managerVars>>

\* ---------------------------------------------------------------- restart
\* The process ends without close() and a new facade, episode manager,
\* pipelines and runner are constructed over the same storage.
Restart ==
  /\ phase # "new"
  /\ rpc = "idle"
  /\ restarts < MaxRestarts
  /\ phase' = "new"
  /\ current' = 0
  /\ lastTurnSet' = FALSE
  /\ turnPosition' = 0
  /\ carried' = <<>>
  /\ pendingReflect' = 0
  /\ recallResult' = NoRecall
  /\ restarts' = restarts + 1
  /\ onClose' = FALSE
  /\ raised' = FALSE
  /\ exception' = "none"
  /\ closeLog' = NoClose
  /\ UNCHANGED <<storageVars, rpc, rleft, rprior, repisode, rcall, rlog, ingests,
                 unsaved, callbackLog, config, tasks, cache, retry>>

\* ------------------------------------------------------ reflection runner
\* scoping that returns the selection also when nothing was selected
scope_relevant_facts_NoFallback(prior, outcome, similar) ==
  IF prior = {} THEN {}
  ELSE IF outcome \in {"fail", "empty", "zero"} THEN prior
  ELSE {f \in prior : ~facts[f].has_embedding \/ f \in similar}

\* _scope_relevant_facts: `outcome` is what embedding the episode text gave
\* ("fail", "empty", "zero" or "vec"); `similar` are the prior facts whose
\* embedding is at least consolidation_similarity_threshold close to it.
scope_relevant_facts(prior, outcome, similar) ==
  IF prior = {} THEN {}
  ELSE IF outcome \in {"fail", "empty", "zero"} THEN prior
  ELSE LET relevant == {f \in prior : ~facts[f].has_embedding \/ f \in similar}
       IN IF relevant = {} THEN prior ELSE relevant

\* the outcome of embedding the episode text, as _scope_relevant_facts
\* tells the cases apart
EmbedOutcome(r) ==
  IF r.raised THEN "fail"
  ELSE IF r.vec = <<>> THEN "empty"
  ELSE IF \A i \in 1..Len(r.vec) : r.vec[i] = 0 THEN "zero"
  ELSE "vec"

\* the prior facts whose stored embedding is at least
\* consolidation_similarity_threshold close to the episode embedding q
SimilarFacts(q, prior) ==
  {f \in prior :
     /\ facts[f].has_embedding
     /\ cosine_similarity(q, facts[f].embedding)
          >= config.consolidation_similarity_threshold}

RunnerIdle ==
  /\ rpc' = "idle"
  /\ rleft' = 0
  /\ rprior' = {}
  /\ repisode' = 0
  /\ rcall' = NoCall
  /\ rlog' = NoLog

\* _reflect_and_save(episode, turns), up to the call of the reflector: the
\* consolidation path when the reflector supports it and active facts exist
reflect_and_save(episode, turnIds, entry, consolidating, outcome, similar) ==
  LET prior == Range(get_active_facts_by_session)
  IN /\ rpc' = IF consolidating /\ prior # {} THEN "consolidate" ELSE "reflect"
     /\ rprior' = IF consolidating /\ prior # {}
                    THEN scope_relevant_facts(prior, outcome, similar)
                    ELSE {}
     /\ rleft' = 0
     /\ repisode' = episode
     /\ rcall' = [entry |-> entry, turns |-> turnIds]
     /\ rlog' = NoLog

\* reflect_episode that counts the buffered turns and reflects on the
\* closing episode's turns only
ReflectEpisode_DropsBuffer(consolidating, outcome, similar) ==
  /\ rpc = "idle"
  /\ pendingReflect # 0
  /\ reflection_enabled
  /\ LET combined == carried \o get_turns_by_episode(pendingReflect)
         prior == Range(get_active_facts_by_session)
     IN IF Len(combined) < min_episode_turns
          THEN /\ carried' = combined
               /\ UNCHANGED <<rpc, rleft, rprior, repisode, rcall, rlog>>
          ELSE /\ carried' = <<>>
               /\ similar \subseteq prior
               /\ reflect_and_save(pendingReflect,
                                   get_turns_by_episode(pendingReflect), "episode",
                                   consolidating, outcome, similar)
  /\ pendingReflect' = 0
  /\ recallResult' = NoRecall
  /\ UNCHANGED <<phase, storageVars, current, lastTurnSet, turnPosition,
                 ingests, restarts, config, tasks, cache, closeLog, retry, unsaved, managerVars, raised, exception>>

\* reflect_episode -> _reflect_and_save, up to the call of the reflector:
\* `consolidating` is whether the reflector has reflect_with_consolidation.
ReflectEpisode(consolidating, outcome, similar) ==
  /\ rpc = "idle"
  /\ pendingReflect # 0
  /\ reflection_enabled
  /\ LET combined == carried \o get_turns_by_episode(pendingReflect)
         prior == Range(get_active_facts_by_session)
     IN IF Len(combined) < min_episode_turns
          THEN /\ carried' = combined
               /\ UNCHANGED <<rpc, rleft, rprior, repisode, rcall, rlog>>
          ELSE /\ carried' = <<>>
               /\ similar \subseteq prior
               /\ reflect_and_save(pendingReflect, combined, "episode",
                                   consolidating, outcome, similar)
  /\ pendingReflect' = 0
  /\ recallResult' = NoRecall
  /\ UNCHANGED <<phase, storageVars, current, lastTurnSet, turnPosition,
                 ingests, restarts, config, tasks, cache, closeLog, retry, unsaved, managerVars, raised, exception>>

\* reflect_episode with the scoping computed from `r`, the result of
\* embedding the episode text
ReflectEpisodeEmbedded(consolidating, r) ==
  ReflectEpisode(consolidating, EmbedOutcome(r),
                 IF EmbedOutcome(r) = "vec"
                   THEN SimilarFacts(r.vec, Range(get_active_facts_by_session))
                   ELSE {})

\* ACMS._run_reflection(episode_id), called by ACMS.close_episode after the
\* close, up to the call of the reflector: nothing below min_episode_turns
RunReflection ==
  /\ rpc = "idle"
  /\ pendingReflect # 0
  /\ ~onClose
  /\ reflection_enabled
  /\ IF episodes[pendingReflect].turn_count < min_episode_turns
       THEN UNCHANGED <<rpc, rleft, rprior, repisode, rcall, rlog>>
       ELSE /\ rpc' = "reflect"
            /\ rleft' = 0
            /\ rprior' = {}
            /\ repisode' = pendingReflect
            /\ rcall' = [entry |-> "session",
                         turns |-> get_turns_by_episode(pendingReflect)]
            /\ rlog' = NoLog
  /\ pendingReflect' = 0
  /\ UNCHANGED <<phase, storageVars, current, lastTurnSet, turnPosition, carried,
                 recallResult, ingests, restarts, config, tasks, cache, closeLog, retry, unsaved, managerVars, raised, exception>>

\* a flush that reflects on the buffered turns and keeps them buffered
FlushCarriedTurns_KeepsBuffer(episode, consolidating, outcome, similar) ==
  /\ phase # "new"
  /\ rpc = "idle"
  /\ episode \in Indices(episodes)
  /\ IF carried = <<>> \/ ~reflection_enabled
       THEN UNCHANGED runnerVars
       ELSE /\ carried' = carried
            /\ similar \subseteq Range(get_active_facts_by_session)
            /\ reflect_and_save(episode, carried, "flush",
                                consolidating, outcome, similar)
  /\ raised' = FALSE
  /\ exception' = "none"
  /\ UNCHANGED <<phase, storageVars, current, lastTurnSet, turnPosition,
                 pendingReflect, recallResult, ingests, restarts, config, tasks, cache, closeLog, retry, unsaved,
                 managerVars>>

\* flush_carried_turns(episode), up to the call of the reflector
FlushCarriedTurns(episode, consolidating, outcome, similar) ==
  /\ phase # "new"
  /\ rpc = "idle"
  /\ episode \in Indices(episodes)
  /\ IF carried = <<>> \/ ~reflection_enabled
       THEN UNCHANGED runnerVars
       ELSE /\ carried' = <<>>
            /\ similar \subseteq Range(get_active_facts_by_session)
            /\ reflect_and_save(episode, carried, "flush",
                                consolidating, outcome, similar)
  /\ raised' = FALSE
  /\ exception' = "none"
  /\ UNCHANGED <<phase, storageVars, current, lastTurnSet, turnPosition,
                 pendingReflect, recallResult, ingests, restarts, config, tasks, cache, closeLog, retry, unsaved,
                 managerVars>>

\* the reflector, the embedder or the storage raises inside
\* _reflect_and_save: reflect_episode lets the ReflectionError out,
\* flush_carried_turns logs it and returns an empty list
ReflectFail ==
  /\ rpc # "idle"
  /\ RunnerIdle
  /\ raised' = (rcall.entry = "episode")
  /\ exception' = IF rcall.entry = "episode" THEN "ReflectionError" ELSE "none"
  /\ UNCHANGED <<phase, storageVars, current, lastTurnSet, turnPosition, carried,
                 pendingReflect, recallResult, ingests, restarts, config, tasks, cache, closeLog, retry, unsaved,
                 managerVars>>

\* a consolidation that ends with nothing saved when no action is returned
ConsolidateReturn_NoFallback(n) ==
  /\ rpc = "consolidate"
  /\ IF n = 0
       THEN RunnerIdle
       ELSE /\ rpc' = "apply"
            /\ rleft' = n
            /\ UNCHANGED <<rprior, repisode, rcall, rlog>>
  /\ UNCHANGED <<phase, storageVars, current, lastTurnSet, turnPosition, carried,
                 pendingReflect, recallResult, ingests, restarts, config, tasks, cache, closeLog, retry, unsaved,
                 managerVars, raised, exception>>

\* _consolidate_and_save: reflect_with_consolidation returns n actions; none
\* falls back to the legacy path
ConsolidateReturn(n) ==
  /\ rpc = "consolidate"
  /\ IF n = 0
       THEN /\ rpc' = "reflect"
            /\ rprior' = {}
            /\ rlog' = [rlog EXCEPT !.fallback = TRUE]
            /\ UNCHANGED <<rleft, repisode, rcall>>
       ELSE /\ rpc' = "apply"
            /\ rleft' = n
            /\ UNCHANGED <<rprior, repisode, rcall, rlog>>
  /\ UNCHANGED <<phase, storageVars, current, lastTurnSet, turnPosition, carried,
                 pendingReflect, recallResult, ingests, restarts, config, tasks, cache, closeLog, retry, unsaved,
                 managerVars, raised, exception>>

\* _legacy_reflect_and_save: reflect returns m facts, of which the first
\* max_facts_per_episode are processed
ReflectReturn(m) ==
  /\ rpc = "reflect"
  /\ IF Min(m, config.max_facts_per_episode) = 0
       THEN RunnerIdle
       ELSE /\ rpc' = "legacy"
            /\ rleft' = Min(m, config.max_facts_per_episode)
            /\ UNCHANGED <<rprior, repisode, rcall, rlog>>
  /\ UNCHANGED <<phase, storageVars, current, lastTurnSet, turnPosition, carried,
                 pendingReflect, recallResult, ingests, restarts, config, tasks, cache, closeLog, retry, unsaved,
                 managerVars, raised, exception>>

NewFact(id, ep, conf, tok, emb, sups) ==
  [id |-> id, episode_id |-> ep, fact_type |-> "decision", confidence |-> conf,
   token_count |-> tok, has_embedding |-> (emb # <<>>), embedding |-> emb,
   superseded_by |-> NoSup, supersedes |-> sups]

\* replace(old_fact, superseded_by=...) followed by update_fact: the record
\* written is the runner's snapshot of the prior fact (taken while it was
\* active) with superseded_by set, whatever the stored value is by now
update_fact(fs, old, sup) == [fs EXCEPT ![old].superseded_by = sup]

\* the loop goes on to the next action or fact, or ends; `skips` is whether
\* this iteration logged the warning for an unknown fact id
RunnerStep(skips) ==
  IF rleft = 1 THEN RunnerIdle
  ELSE /\ rleft' = rleft - 1
       /\ rlog' = IF skips THEN [rlog EXCEPT !.skipped = @ + 1] ELSE rlog
       /\ UNCHANGED <<rpc, rprior, repisode, rcall>>

RunnerAdvance == RunnerStep(FALSE)

ApplyFrameWith(skips) ==
  /\ RunnerStep(skips)
  /\ UNCHANGED <<phase, episodes, turns, current, lastTurnSet, turnPosition,
                 carried, pendingReflect, recallResult, ingests, restarts, config, tasks, cache, closeLog, retry, unsaved,
                 managerVars, raised, exception>>

ApplyFrame ==
  /\ RunnerAdvance
  /\ UNCHANGED <<phase, episodes, turns, current, lastTurnSet, turnPosition,
                 carried, pendingReflect, recallResult, ingests, restarts, config, tasks, cache, closeLog, retry, unsaved,
                 managerVars, raised, exception>>

\* One iteration of the loop of _apply_consolidation_actions per action
\* type: `src` is the action's source_fact_id (0 for None), `conf` its
\* confidence, `tok` the token count of its content, `emb` the embedding
\* saved for the new fact (<<>> when embedding it fails).

\* KEEP
ApplyKeep ==
  /\ rpc = "apply"
  /\ UNCHANGED facts
  /\ ApplyFrame

\* ADD; `dup` is what _is_duplicate answers, which is TRUE only when some
\* scoped prior fact has a stored embedding
ApplyAdd(conf, tok, emb, dup) ==
  /\ rpc = "apply"
  /\ dup => \E f \in rprior : facts[f].has_embedding
  /\ IF conf < min_confidence \/ dup
       THEN UNCHANGED facts
       ELSE /\ Len(facts) < MaxFacts
            /\ facts' = Append(facts,
                          NewFact(Len(facts) + 1, repisode, conf, tok, emb, <<>>))
  /\ ApplyFrame

\* what one call of the embedder gives: it raises, or returns no vector, a
\* zero vector or a unit vector
EmbedResults ==
  {[raised |-> TRUE, vec |-> <<>>]} \cup
  {[raised |-> FALSE, vec |-> v] : v \in {<<>>, <<0, 0>>, <<1, 0>>, <<0, 1>>}}

IsZeroVector(v) == \A i \in 1..Len(v) : v[i] = 0

\* _is_duplicate(new_fact, existing_facts): `probe` is what embedding the
\* candidate's content gave
is_duplicate(probe, existing, threshold) ==
  IF threshold >= 10 THEN FALSE
  ELSE IF probe.raised \/ probe.vec = <<>> THEN FALSE
  ELSE IF IsZeroVector(probe.vec) THEN FALSE
  ELSE \E f \in existing :
         /\ facts[f].has_embedding
         /\ cosine_similarity(probe.vec, facts[f].embedding) >= threshold

\* ADD with the duplicate test computed: `probe` is the embedding made by
\* _is_duplicate, `saved` the one made by _embed_and_save_fact
ApplyAddChecked(conf, tok, probe, saved) ==
  ApplyAdd(conf, tok, IF saved.raised THEN <<>> ELSE saved.vec,
           is_duplicate(probe, rprior, config.dedup_similarity_threshold))

\* UPDATE that marks the old fact as superseded by itself
ApplyUpdate_SelfLink(src, conf, tok, emb) ==
  /\ rpc = "apply"
  /\ IF src \notin rprior \/ conf < min_confidence
       THEN UNCHANGED facts
       ELSE /\ Len(facts) < MaxFacts
            /\ facts' = update_fact(
                          Append(facts,
                            NewFact(Len(facts) + 1, repisode, conf, tok, emb, <<src>>)),
                          src, SupFact(src))
  /\ ApplyFrameWith(src \notin rprior)

\* UPDATE that saves the replacement and leaves the old fact untouched
ApplyUpdate_NoLink(src, conf, tok, emb) ==
  /\ rpc = "apply"
  /\ IF src \notin rprior \/ conf < min_confidence
       THEN UNCHANGED facts
       ELSE /\ Len(facts) < MaxFacts
            /\ facts' = Append(facts,
                          NewFact(Len(facts) + 1, repisode, conf, tok, emb, <<src>>))
  /\ ApplyFrameWith(src \notin rprior)

\* UPDATE
ApplyUpdate(src, conf, tok, emb) ==
  /\ rpc = "apply"
  /\ IF src \notin rprior \/ conf < min_confidence
       THEN UNCHANGED facts
       ELSE /\ Len(facts) < MaxFacts
            /\ facts' = update_fact(
                          Append(facts,
                            NewFact(Len(facts) + 1, repisode, conf, tok, emb, <<src>>)),
                          src, SupFact(Len(facts) + 1))
  /\ ApplyFrameWith(src \notin rprior)

\* REMOVE that gives the batch up at an unknown fact id
ApplyRemove_AbortsBatch(src) ==
  /\ rpc = "apply"
  /\ IF src \notin rprior
       THEN /\ UNCHANGED facts
            /\ RunnerIdle
            /\ UNCHANGED <<phase, episodes, turns, current, lastTurnSet, turnPosition,
                           carried, pendingReflect, recallResult, ingests, restarts,
                           config, tasks, cache, closeLog, retry, unsaved, managerVars, raised, exception>>
       ELSE /\ facts' = update_fact(facts, src, RemovedBy(repisode))
            /\ ApplyFrameWith(FALSE)

\* REMOVE whose sentinel names the episode the fact came from
ApplyRemove_OwnEpisode(src) ==
  /\ rpc = "apply"
  /\ IF src \notin rprior
       THEN UNCHANGED facts
       ELSE facts' = update_fact(facts, src, RemovedBy(facts[src].episode_id))
  /\ ApplyFrameWith(src \notin rprior)

\* REMOVE
ApplyRemove(src) ==
  /\ rpc = "apply"
  /\ IF src \notin rprior
       THEN UNCHANGED facts
       ELSE facts' = update_fact(facts, src, RemovedBy(repisode))
  /\ ApplyFrameWith(src \notin rprior)

\* one iteration of the loop of _legacy_reflect_and_save
LegacyStep(conf, tok, emb) ==
  /\ rpc = "legacy"
  /\ IF conf < min_confidence
       THEN UNCHANGED facts
       ELSE /\ Len(facts) < MaxFacts
            /\ facts' = Append(facts,
                          NewFact(Len(facts) + 1, repisode, conf, tok, emb, <<>>))
  /\ ApplyFrame

EmbedOutcomes == {"fail", "empty", "zero", "vec"}
FactVectors == {<<>>, <<1, 0>>}

\* ------------------------------------------------------- recall pipeline
max_vector_results == 50
QueryVectors == {<<>>, <<1, 0>>, <<0, 1>>}

\* _cosine_similarity of the recall pipeline: 0 when the lengths differ
recall_cosine(a, b) ==
  IF Len(a) # Len(b) THEN 0 ELSE cosine_similarity(a, b)

\* _turn_to_candidate
turn_to_candidate(i, relevance) ==
  [id |-> i, source |-> "turn",
   score |-> relevance + calculate_marker_boost(turns[i].markers),
   token_count |-> turns[i].token_count,
   marked |-> turns[i].markers # <<>>]

\* relevance of a stored turn or fact: its embedding's cosine against the
\* query embedding when both exist, 0.5 otherwise
Relevance(has_embedding, vec, q) ==
  IF has_embedding /\ q # <<>> THEN recall_cosine(q, vec) ELSE 5

RECURSIVE Reverse(_)
Reverse(s) == IF s = <<>> THEN <<>> ELSE Reverse(Tail(s)) \o <<Head(s)>>

\* list.sort(key=final_score, reverse=True): stable, descending
RECURSIVE InsertByScore(_, _)
InsertByScore(c, s) ==
  IF s = <<>> THEN <<c>>
  ELSE IF Head(s).score >= c.score
       THEN <<Head(s)>> \o InsertByScore(c, Tail(s))
       ELSE <<c>> \o s

RECURSIVE SortByScore(_)
SortByScore(s) ==
  IF s = <<>> THEN <<>>
  ELSE InsertByScore(s[Len(s)], SortByScore(SubSeq(s, 1, Len(s) - 1)))

RECURSIVE SumTokens(_)
SumTokens(s) ==
  IF s = <<>> THEN 0 ELSE Head(s).token_count + SumTokens(Tail(s))

\* _get_current_episode_candidates
current_episode_candidates ==
  LET ids == get_turns_by_episode(current)
  IN IF current = 0 THEN <<>>
     ELSE [k \in 1..Len(ids) |-> turn_to_candidate(ids[k], 10)]

\* _get_marked_candidates
marked_candidates(q) ==
  LET C(i) == turn_to_candidate(i,
                Relevance(turns[i].has_embedding, Embed(turns[i].content), q))
      ids == get_marked_turns(current)
  IN SortByScore([k \in 1..Len(ids) |-> C(ids[k])])

\* _get_fact_candidates
fact_candidates(q) ==
  LET C(f) == LET rel == Relevance(facts[f].has_embedding, facts[f].embedding, q)
              IN [id |-> f, source |-> "fact",
                  score |-> rel + marker_weight(facts[f].fact_type),
                  token_count |-> facts[f].token_count,
                  marked |-> TRUE]
      ids == get_active_facts_by_session
  IN SortByScore([k \in 1..Len(ids) |-> C(ids[k])])

\* vector_search over the turn embeddings of the session: ids of the turns,
\* most similar first, at most k
vector_search(q, k) ==
  LET C(i) == [id |-> i, score |-> cosine_similarity(q, Embed(turns[i].content))]
      ids == Ascending({i \in Indices(turns) : turns[i].has_embedding})
      sorted == SortByScore([j \in 1..Len(ids) |-> C(ids[j])])
  IN SubSeq(sorted, 1, Min(k, Len(sorted)))

\* _get_vector_candidates
vector_candidates(q, min_relevance) ==
  LET Keep(r) == r.score >= min_relevance
      C(r) == turn_to_candidate(r.id, r.score)
      hits == SelectSeq(vector_search(q, max_vector_results), Keep)
  IN IF q = <<>> THEN <<>>
     ELSE [k \in 1..Len(hits) |-> C(hits[k])]

\* the loops `if used + c.token_count <= budget: take c`
RECURSIVE GreedyFit(_, _, _)
GreedyFit(cs, used, budget) ==
  IF cs = <<>> THEN <<>>
  ELSE IF used + Head(cs).token_count <= budget
       THEN <<Head(cs)>> \o GreedyFit(Tail(cs), used + Head(cs).token_count, budget)
       ELSE GreedyFit(Tail(cs), used, budget)

\* step 3 without the fit test: every candidate is taken while budget remains
RECURSIVE GreedyFill_NoFitTest(_, _)
GreedyFill_NoFitTest(cs, remaining) ==
  IF cs = <<>> \/ remaining <= 0 THEN <<>>
  ELSE <<Head(cs)>> \o GreedyFill_NoFitTest(Tail(cs), remaining - Head(cs).token_count)

\* the loop of step 3: stop once nothing remains, take whatever still fits
RECURSIVE GreedyFill(_, _)
GreedyFill(cs, remaining) ==
  IF cs = <<>> \/ remaining <= 0 THEN <<>>
  ELSE IF Head(cs).token_count <= remaining
       THEN <<Head(cs)>> \o GreedyFill(Tail(cs), remaining - Head(cs).token_count)
       ELSE GreedyFill(Tail(cs), remaining)

\* overflow selection that fills up with the oldest unmarked turns
handle_episode_overflow_OldestFirst(candidates, budget) ==
  LET IsMarked(c) == c.marked
      IsUnmarked(c) == ~c.marked
      keptMarked == GreedyFit(SelectSeq(candidates, IsMarked), 0, budget)
      keptUnmarked == GreedyFit(SelectSeq(candidates, IsUnmarked),
                                SumTokens(keptMarked), budget)
      Kept(c) == c \in Range(keptMarked) \cup Range(keptUnmarked)
  IN SelectSeq(candidates, Kept)

\* _handle_episode_overflow: marked turns first, then the most recent
\* unmarked ones, emitted in the order of `candidates`
handle_episode_overflow(candidates, budget) ==
  LET IsMarked(c) == c.marked
      IsUnmarked(c) == ~c.marked
      keptMarked == GreedyFit(SelectSeq(candidates, IsMarked), 0, budget)
      keptUnmarked == GreedyFit(Reverse(SelectSeq(candidates, IsUnmarked)),
                                SumTokens(keptMarked), budget)
      Kept(c) == c \in Range(keptMarked) \cup Range(keptUnmarked)
  IN SelectSeq(candidates, Kept)

\* _candidate_to_context_item
candidate_to_context_item(c) ==
  [id |-> c.id, source |-> c.source, score |-> c.score,
   token_count |-> c.token_count]

\* budget allocation whose step 3 takes facts, then vector hits, unsorted
allocate_budget_Unsorted(token_budget, current_episode, marked, fact_cands, vectors) ==
  LET current_budget == (token_budget * budget_pct_num) \div budget_pct_den
      reduced == IF SumTokens(current_episode) > current_budget
                   THEN handle_episode_overflow(current_episode, current_budget)
                   ELSE current_episode
      part1 == GreedyFit(reduced, 0, current_budget)
      remaining1 == token_budget - SumTokens(part1)
      part2 == GreedyFit(marked, 0, remaining1)
      remaining2 == remaining1 - SumTokens(part2)
      part3 == GreedyFill(fact_cands \o vectors, remaining2)
      chosen == part1 \o part2 \o part3
  IN [k \in 1..Len(chosen) |-> candidate_to_context_item(chosen[k])]

\* _allocate_budget
allocate_budget(token_budget, current_episode, marked, fact_cands, vectors) ==
  LET current_budget == (token_budget * budget_pct_num) \div budget_pct_den
      reduced == IF SumTokens(current_episode) > current_budget
                   THEN handle_episode_overflow(current_episode, current_budget)
                   ELSE current_episode
      part1 == GreedyFit(reduced, 0, current_budget)
      remaining1 == token_budget - SumTokens(part1)
      part2 == GreedyFit(marked, 0, remaining1)
      remaining2 == remaining1 - SumTokens(part2)
      part3 == GreedyFill(SortByScore(fact_cands \o vectors), remaining2)
      chosen == part1 \o part2 \o part3
  IN [k \in 1..Len(chosen) |-> candidate_to_context_item(chosen[k])]

\* ACMS.recall -> RecallPipeline.recall; `q` is the embedding of the query
Recall(q, token_budget, include_current_episode, min_relevance) ==
  /\ phase = "ready"
  /\ rpc = "idle"
  /\ token_budget >= 1
  /\ LET cur == IF include_current_episode THEN current_episode_candidates ELSE <<>>
         marked == marked_candidates(q)
         ids == {c.id : c \in Range(cur) \cup Range(marked)}
         Unique(c) == c.id \notin ids
         vectors == SelectSeq(vector_candidates(q, min_relevance), Unique)
     IN recallResult' =
          [called |-> TRUE, budget |-> token_budget,
           items |-> allocate_budget(token_budget, cur, marked,
                                     fact_candidates(q), vectors)]
  /\ raised' = FALSE
  /\ exception' = "none"
  /\ UNCHANGED <<phase, storageVars, current, lastTurnSet, turnPosition,
                 runnerVars, pendingReflect, ingests, restarts, config, tasks, cache, closeLog, retry, unsaved,
                 managerVars>>

\* ACMS._ensure_initialized returns: _initialized is set and _closed is not
ensure_initialized == phase = "ready"

\* the facade's ingest, recall, close_episode and get_session_stats: each
\* calls _ensure_initialized first, whose RuntimeError ends the call
FacadeOps == {"ingest", "recall", "close_episode", "get_session_stats"}

FacadeCall(op) ==
  IF ensure_initialized
    THEN \/ /\ op = "ingest"
            /\ \E inp \in TurnInputs, gap \in BOOLEAN :
                 Ingest(inp[1], inp[2], gap, "none")
         \/ op = "recall" /\ Recall(<<1, 0>>, MaxBudget, TRUE, 0)
         \/ op = "close_episode" /\ CloseEpisode
         \/ /\ op = "get_session_stats"
            /\ rpc = "idle"
            /\ raised' = FALSE
            /\ exception' = "none"
            /\ recallResult' = NoRecall
            /\ UNCHANGED <<phase, storageVars, current, lastTurnSet,
                           turnPosition, runnerVars, pendingReflect, ingests,
                           restarts, config, tasks, cache, retry, closeLog, unsaved,
                           managerVars>>
    ELSE /\ rpc = "idle"
         /\ raised' = TRUE
         /\ exception' = "RuntimeError"
         /\ recallResult' = NoRecall
         /\ UNCHANGED <<phase, storageVars, current, lastTurnSet,
                        turnPosition, runnerVars, pendingReflect, ingests,
                        restarts, config, tasks, cache, retry, closeLog, unsaved,
                        managerVars>>

\* ------------------------------------------------------- specifications
\* Episode lifecycle: every ingest input and failure, closes and restarts;
\* MaxIngests bounds the ingest calls and restarts of a behaviour together.
NextLife ==
  \/ Initialize
  \/ \E inp \in TurnInputs, gap \in BOOLEAN, fail \in FailModes :
       ingests + restarts < MaxIngests /\ Ingest(inp[1], inp[2], gap, fail)
  \/ CloseEpisode
  \/ Close
  \/ (ingests + restarts < MaxIngests /\ Restart)

Spec == Init /\ [][NextLife]_vars

\* Reflection: plain user turns, manual closes and the runner's steps; the
\* reflection of a closed episode is taken up before the next facade call.
NextFacts ==
  \/ Initialize
  \/ /\ ingests < MaxFactIngests
     /\ pendingReflect = 0
     /\ Ingest("user", "hi", FALSE, "none")
  \/ (pendingReflect = 0 /\ CloseEpisode)
  \/ \E c \in BOOLEAN, o \in EmbedOutcomes :
       \E sim \in SUBSET Range(get_active_facts_by_session) :
         (o = "vec" \/ sim = {}) /\ ReflectEpisode(c, o, sim)
  \/ \E n \in 0..MaxActions : ConsolidateReturn(n)
  \/ \E m \in 0..MaxReturned : ReflectReturn(m)
  \/ ApplyKeep
  \/ \E conf \in Confidences, emb \in FactVectors, dup \in BOOLEAN :
       ApplyAdd(conf, 1, emb, dup)
  \/ \E src \in 0..MaxFacts, conf \in Confidences, emb \in FactVectors :
       ApplyUpdate(src, conf, 1, emb)
  \/ \E src \in 0..MaxFacts : ApplyRemove(src)
  \/ \E conf \in Confidences, emb \in FactVectors :
       LegacyStep(conf, 1, emb)

SpecFacts == Init /\ [][NextFacts]_vars

\* The same steps in a session configured with max_facts_per_episode = 1,
\* below the number of actions a consolidation batch can hold.
InitCap == InitSession([DefaultConfig EXCEPT !.max_facts_per_episode = 1])

SpecCap == InitCap /\ [][NextFacts]_vars

\* Recall over turns of several kinds, closed episodes and consolidated facts.
RecallInputs == {<<"user", "hi">>, <<"user", "Goal: ship">>}
Budgets == {1, 3, MaxBudget}

\* recall reads and never writes: a behaviour ends with the recall call
NextRecall ==
  \/ (~recallResult.called /\ Initialize)
  \/ \E inp \in RecallInputs :
       /\ ~recallResult.called
       /\ ingests < MaxFactIngests
       /\ pendingReflect = 0
       /\ Ingest(inp[1], inp[2], FALSE, "none")
  \/ (~recallResult.called /\ pendingReflect = 0 /\ CloseEpisode)
  \/ ReflectEpisode(TRUE, "zero", {})
  \/ ConsolidateReturn(1)
  \/ ReflectReturn(MaxReturned)
  \/ ApplyAdd(9, 2, <<1, 0>>, FALSE)
  \/ \E src \in 1..MaxFacts : ApplyUpdate(src, 9, 2, <<1, 0>>)
  \/ \E src \in 1..MaxFacts : ApplyRemove(src)
  \/ LegacyStep(9, 1, <<1, 0>>)
  \/ \E q \in QueryVectors, b \in Budgets, inc \in BOOLEAN :
       ~recallResult.called /\ Recall(q, b, inc, 0)

SpecRecall == Init /\ [][NextRecall]_vars

\* Recall when the embedder gives no semantic signal: an empty list, or the
\* zero vector of the null embedder, at a minimum relevance of 0.0 (the
\* default) and of 0.5.
NullQueries == {<<>>, <<0, 0>>}

NextNullQuery ==
  \/ (~recallResult.called /\ Initialize)
  \/ \E inp \in RecallInputs :
       /\ ~recallResult.called
       /\ ingests < MaxFactIngests
       /\ Ingest(inp[1], inp[2], FALSE, "none")
  \/ (~recallResult.called /\ CloseEpisode)
  \/ \E q \in NullQueries, b \in Budgets, inc \in BOOLEAN, rel \in {0, 5} :
       ~recallResult.called /\ Recall(q, b, inc, rel)

SpecNullQuery == Init /\ [][NextNullQuery]_vars

\* The facade of the acms package through its whole life: calls before
\* initialize, on the initialized facade and after close, and close called
\* up to MaxCloseCalls times.
NextClosed ==
  \/ InitializeACMS
  \/ \E op \in FacadeOps :
       /\ pendingReflect = 0
       /\ ingests < MaxFactIngests
       /\ FacadeCall(op)
  \/ (pendingReflect = 0 /\ closeLog.calls < MaxCloseCalls /\ CloseFacade)
  \/ RunReflection
  \/ ReflectReturn(1)
  \/ LegacyStep(9, 1, <<1, 0>>)

SpecClosed == Init /\ [][NextClosed]_vars

\* ------------------------------------------- ingest calls that interleave
\* A coroutine runs from one await that suspends it to the next without
\* interruption; a step of a task is such a stretch of code.
\* assign_episode, from `if self._current_episode is None` to the await it
\* reaches: _create_new_episode up to save_episode, or the stats update up
\* to update_episode; `cur` is _current_episode at that point
EnsureEpisode(t, started, cur) ==
  IF cur = 0
    THEN /\ episodes' = Append(episodes, NewEpisode)
         /\ unsaved' = Append(unsaved, [count |-> 0, tokens |-> 0])
         /\ current' = 0
         /\ tasks' = [started EXCEPT ![t].pc = "created",
                                     ![t].episode = Len(episodes) + 1]
    ELSE /\ episodes' = [episodes EXCEPT ![cur] =
                           AssignedRecord(@, TokenCount(started[t].content),
                                          detect_markers(started[t].content))]
         /\ current' = cur
         /\ tasks' = [started EXCEPT ![t].pc = "assigned"]
         /\ UNCHANGED unsaved

\* EpisodeManager.assign_episode, close_current_episode and
\* _create_new_episode of a task resumed after an await
AssignTask(t) ==
  /\ \/ \* close_current_episode after update_episode: the manager forgets
        \* the episode and awaits the callback
        /\ tasks[t].pc = "closing"
        /\ lastTurnSet' = FALSE
        /\ IF onClose
             THEN /\ callbackLog' = Append(callbackLog, tasks[t].episode)
                  /\ current' = 0
                  /\ tasks' = [tasks EXCEPT ![t].pc = "callback"]
                  /\ UNCHANGED <<episodes, unsaved>>
             ELSE EnsureEpisode(t, tasks, 0) /\ UNCHANGED callbackLog
     \/ \* the callback returned: back in assign_episode
        /\ tasks[t].pc = "callback"
        /\ EnsureEpisode(t, tasks, current)
        /\ UNCHANGED <<lastTurnSet, callbackLog>>
     \/ \* _create_new_episode after save_episode, then the stats update
        /\ tasks[t].pc = "created"
        /\ episodes' = [episodes EXCEPT ![tasks[t].episode] =
                          AssignedRecord(@, TokenCount(tasks[t].content),
                                         detect_markers(tasks[t].content))]
        /\ current' = tasks[t].episode
        /\ tasks' = [tasks EXCEPT ![t].pc = "assigned"]
        /\ UNCHANGED <<lastTurnSet, callbackLog, unsaved>>
  /\ UNCHANGED <<phase, turns, facts, turnPosition, runnerVars, pendingReflect,
                 ingests, restarts, config, retry, closeLog, cache, onClose,
                 recallResult, raised, exception>>

\* IngestionPipeline.ingest as a task: the turn is built with the position
\* counter as it is then, assign_episode runs up to its first await, and
\* is suspended there
IngestTask(t, role, content) ==
     /\ tasks[t].pc = "idle"
     /\ phase = "ready"
     /\ LET started == [tasks EXCEPT ![t] =
                         [IdleTask EXCEPT !.role = role,
                                          !.content = content,
                                          !.position = turnPosition]]
        IN  IF should_close_episode(role, content, FALSE)
              THEN /\ episodes' = [episodes EXCEPT ![current] =
                                     ClosedRecord(@, "boundary_rule")]
                   /\ tasks' = [started EXCEPT ![t].pc = "closing",
                                               ![t].episode = current]
                   /\ UNCHANGED <<current, unsaved>>
              ELSE EnsureEpisode(t, started, current)
     /\ ingests' = ingests + 1
     /\ UNCHANGED <<turns, turnPosition, lastTurnSet, raised, exception>>
     /\ UNCHANGED <<phase, facts, runnerVars, pendingReflect, restarts, config,
                    retry, closeLog, cache, managerVars, recallResult>>

\* IngestionPipeline.ingest of a task resumed after assign_episode's last
\* await, after the embedding, and after save_turn
IngestResume(t) ==
  \/ \* assign_episode after update_episode: it returns
     \* self._current_episode.id, and ingest awaits the embedding
     /\ tasks[t].pc = "assigned"
     /\ lastTurnSet' = TRUE
     /\ tasks' = [tasks EXCEPT ![t].pc = IF current = 0 THEN "idle"
                                         ELSE "embedding",
                               ![t].episode = current]
     /\ raised' = (current = 0)
     /\ exception' = IF current = 0 THEN "AttributeError" ELSE "none"
     /\ UNCHANGED <<turns, turnPosition, ingests>>
     /\ UNCHANGED <<phase, storageVars, current, runnerVars, pendingReflect,
                    restarts, config, retry, closeLog, cache, unsaved,
                    managerVars, recallResult>>
  \/ \* the embedding is stored: save_turn
     /\ tasks[t].pc = "embedding"
     /\ turns' = Append(turns,
                        [id |-> Len(turns) + 1,
                         episode_id |-> tasks[t].episode,
                         role |-> tasks[t].role,
                         content |-> tasks[t].content,
                         markers |-> detect_markers(tasks[t].content),
                         token_count |-> TokenCount(tasks[t].content),
                         position |-> tasks[t].position,
                         has_embedding |-> TRUE,
                         arrival |-> 0])
     /\ tasks' = [tasks EXCEPT ![t].pc = "saving"]
     /\ UNCHANGED <<turnPosition, ingests, lastTurnSet, raised, exception>>
     /\ UNCHANGED <<phase, episodes, facts, current, runnerVars, pendingReflect,
                    restarts, config, retry, closeLog, cache, unsaved,
                    managerVars, recallResult>>
  \/ \* save_turn returned: the position counter is incremented
     /\ tasks[t].pc = "saving"
     /\ turnPosition' = turnPosition + 1
     /\ tasks' = [tasks EXCEPT ![t] = IdleTask]
     /\ raised' = FALSE
     /\ exception' = "none"
     /\ UNCHANGED <<turns, ingests, lastTurnSet>>
     /\ UNCHANGED <<phase, storageVars, current, runnerVars, pendingReflect,
                    restarts, config, retry, closeLog, cache, unsaved,
                    managerVars, recallResult>>

\* Two ingest calls started without waiting for each other, every await a
\* point where the other may run.
NextInterleave ==
  \/ Initialize
  \/ \E t \in TaskIds, inp \in TurnInputs :
       ingests < MaxIngests /\ IngestTask(t, inp[1], inp[2])
  \/ \E t \in TaskIds : IngestResume(t)
  \/ \E t \in TaskIds : AssignTask(t)

SpecInterleave == Init /\ [][NextInterleave]_vars

\* ------------------------------------- background reflections that overlap
\* reflect_episode(episode, turns, background=True): below the threshold the
\* turns are carried forward; otherwise _reflect_and_save is scheduled as a
\* task and the call returns
ReflectInBackground(t) ==
  /\ tasks[t].pc = "idle"
  /\ pendingReflect # 0
  /\ reflection_enabled
  /\ LET combined == carried \o get_turns_by_episode(pendingReflect)
     IN IF Len(combined) < min_episode_turns
          THEN /\ carried' = combined
               /\ UNCHANGED tasks
          ELSE /\ carried' = <<>>
               /\ tasks' = [tasks EXCEPT ![t] =
                              [IdleTask EXCEPT !.pc = "scheduled",
                                               !.episode = pendingReflect]]
  /\ pendingReflect' = 0
  /\ recallResult' = NoRecall
  /\ UNCHANGED <<phase, storageVars, current, lastTurnSet, turnPosition,
                 runnerVars, ingests, restarts, config, cache, closeLog, retry,
                 unsaved, managerVars, raised, exception>>

\* _reflect_and_save and _apply_consolidation_actions as a task, from one
\* await to the next; the reflector answers with one UPDATE of `src`
\* (consolidation) or one fact (legacy)
ReflectTask(t, src) ==
  /\ \/ \* get_active_facts_by_session returned: the reflector is called
        /\ tasks[t].pc = "scheduled"
        /\ src = 0
        /\ tasks' = [tasks EXCEPT
                       ![t].prior = Range(get_active_facts_by_session),
                       ![t].pc = IF get_active_facts_by_session = <<>>
                                   THEN "reflect" ELSE "consolidate"]
        /\ UNCHANGED facts
     \/ \* legacy path: the fact the reflector returned is saved
        /\ tasks[t].pc = "reflect"
        /\ src = 0
        /\ Len(facts) < MaxFacts
        /\ facts' = Append(facts, NewFact(Len(facts) + 1, tasks[t].episode,
                                          9, 1, <<1, 0>>, <<>>))
        /\ tasks' = [tasks EXCEPT ![t] = IdleTask]
     \/ \* UPDATE: the replacement is saved, update_fact is awaited next
        /\ tasks[t].pc = "consolidate"
        /\ IF src \notin tasks[t].prior
             THEN /\ UNCHANGED facts
                  /\ tasks' = [tasks EXCEPT ![t] = IdleTask]
             ELSE /\ Len(facts) < MaxFacts
                  /\ facts' = Append(facts,
                                NewFact(Len(facts) + 1, tasks[t].episode,
                                        9, 1, <<1, 0>>, <<src>>))
                  /\ tasks' = [tasks EXCEPT ![t].pc = "update",
                                            ![t].source = src,
                                            ![t].saved = Len(facts) + 1]
     \/ \* update_fact(replace(old_fact, superseded_by=new_fact.id))
        /\ tasks[t].pc = "update"
        /\ src = 0
        /\ facts' = update_fact(facts, tasks[t].source, SupFact(tasks[t].saved))
        /\ tasks' = [tasks EXCEPT ![t] = IdleTask]
  /\ UNCHANGED <<phase, episodes, turns, current, lastTurnSet, turnPosition,
                 carried, runnerVars, pendingReflect, recallResult, ingests,
                 restarts, config, cache, closeLog, retry, unsaved, managerVars,
                 raised, exception>>

\* A session that reflects in the background: every closed episode goes to
\* reflect_episode(background=True), and the tasks run between the calls.
NextBackground ==
  \/ Initialize
  \/ /\ ingests < MaxBackgroundIngests
     /\ pendingReflect = 0
     /\ Ingest("user", "hi", FALSE, "none")
  \/ (pendingReflect = 0 /\ CloseEpisode)
  \/ \E t \in TaskIds : ReflectInBackground(t)
  \/ \E t \in TaskIds, src \in 0..MaxFacts : ReflectTask(t, src)

SpecBackground == Init /\ [][NextBackground]_vars

\* ------------------------------------------------------------- LRUCache
CacheKeys == {"a", "b", "c"}
CacheValues == {1, 2}

\* a call on the cache: the OrderedDict becomes `entries`, `evicted` are
\* the keys evicted for capacity, and nothing else changes
CacheCall(entries, evicted) ==
  /\ cache.max_size >= 1
  /\ cache.clock < MaxCacheOps
  /\ cache' = [cache EXCEPT !.entries = entries, !.evicted = evicted,
                            !.clock = @ + 1]
  /\ UNCHANGED <<phase, storageVars, current, lastTurnSet, turnPosition,
                 runnerVars, pendingReflect, ingests, restarts, config, tasks, retry,
                 closeLog, unsaved, managerVars, recallResult, raised,
                 exception>>

\* LRUCache(max_size)
LRUCache_init(max_size) ==
  /\ cache = NoCache
  /\ cache' = [NoCache EXCEPT !.max_size = max_size]
  /\ UNCHANGED <<phase, storageVars, current, lastTurnSet, turnPosition,
                 runnerVars, pendingReflect, ingests, restarts, config, tasks, retry,
                 closeLog, unsaved, managerVars, recallResult, raised,
                 exception>>

\* a get that returns the value without moving the entry to the end
LRUCache_get_NoMove(key, expired) ==
  LET es == cache.entries
      Other(e) == e.key # key
      Touched(e) == IF e.key = key THEN [e EXCEPT !.used = cache.clock + 1]
                    ELSE e
  IN CacheCall(IF \A i \in Indices(es) : es[i].key # key THEN es
               ELSE IF expired THEN SelectSeq(es, Other)
               ELSE [i \in Indices(es) |-> Touched(es[i])], {})

\* LRUCache.get: a miss leaves the dict alone, an expired entry is deleted,
\* a hit moves the entry to the end
LRUCache_get(key, expired) ==
  LET es == cache.entries
      Other(e) == e.key # key
      Same(e) == e.key = key
      hit == SelectSeq(es, Same)
  IN CacheCall(IF hit = <<>> THEN es
               ELSE IF expired THEN SelectSeq(es, Other)
               ELSE Append(SelectSeq(es, Other),
                           [hit[1] EXCEPT !.used = cache.clock + 1]), {})

\* LRUCache.put: an existing key gets the value and moves to the end; a
\* new key is added after entries were popped from the front while the
\* cache is at capacity
LRUCache_put(key, value) ==
  LET es == cache.entries
      Other(e) == e.key # key
      entry == [key |-> key, value |-> value, used |-> cache.clock + 1]
      pops == IF Len(es) >= cache.max_size THEN Len(es) - cache.max_size + 1
              ELSE 0
  IN IF \E i \in Indices(es) : es[i].key = key
       THEN CacheCall(Append(SelectSeq(es, Other), entry), {})
       ELSE CacheCall(Append(SubSeq(es, pops + 1, Len(es)), entry),
                      {es[i].key : i \in 1..pops})

\* LRUCache.delete
LRUCache_delete(key) ==
  LET Other(e) == e.key # key
  IN CacheCall(SelectSeq(cache.entries, Other), {})

\* LRUCache.contains: deletes the entry when it has expired and leaves the
\* order alone
LRUCache_contains(key, expired) ==
  LET Other(e) == e.key # key
  IN CacheCall(IF expired THEN SelectSeq(cache.entries, Other)
               ELSE cache.entries, {})

NextCache ==
  \/ \E n \in 1..MaxCacheSize : LRUCache_init(n)
  \/ \E k \in CacheKeys, expired \in BOOLEAN : LRUCache_get(k, expired)
  \/ \E k \in CacheKeys, v \in CacheValues : LRUCache_put(k, v)
  \/ \E k \in CacheKeys : LRUCache_delete(k)
  \/ \E k \in CacheKeys, expired \in BOOLEAN : LRUCache_contains(k, expired)

SpecCache == Init /\ [][NextCache]_vars

\* ------------------------------------------ HTTP provider and with_retry
\* what one request of the HTTP embedder meets: a response with the
\* embeddings, a timeout, a refused connection, a protocol error, a
\* response with status 429, 500 or 400, or a response with the wrong
\* number of embeddings
RequestOutcomes == {"ok", "timeout", "connect", "protocol", "http429",
                    "http500", "http400", "mismatch"}

\* _embed_request: the class of the exception the request raises
embed_request(outcome) ==
  CASE outcome = "ok" -> "none"
    [] outcome = "timeout" -> "TimeoutException"
    [] outcome = "connect" -> "ConnectError"
    [] outcome = "protocol" -> "RemoteProtocolError"
    [] OTHER -> "ProviderError"

\* the retryable flag _embed_request gives its ProviderError
retryable(outcome) == outcome \in {"http429", "http500"}

\* RetryConfig.retryable_exceptions of the HTTP providers
retryable_exceptions ==
  {"TimeoutException", "ConnectError", "RemoteProtocolError"}

\* HTTPEmbedder.embed enters with_retry; `m` is the provider's max_retries
EmbedCall(m) ==
  /\ retry.status \in {"idle", "returned", "raised"}
  /\ retry' = [status |-> "running", attempt |-> 1, max_attempts |-> m,
               outcomes |-> <<>>, error |-> "none"]
  /\ UNCHANGED <<phase, storageVars, current, lastTurnSet, turnPosition,
                 runnerVars, pendingReflect, ingests, restarts, config, tasks, cache, closeLog,
                 unsaved, managerVars, recallResult, raised, exception>>

\* with_retry, one pass of the loop: the call returns, or raises an
\* exception that is caught when its class is retryable (then the loop
\* sleeps, or ends in RetryExhaustedError on the last attempt) and leaves
\* with_retry otherwise; embed wraps whatever leaves in a ProviderError
Attempt(outcome) ==
  LET e == embed_request(outcome)
      status == IF e = "none" THEN "returned"
                ELSE IF e \notin retryable_exceptions THEN "raised"
                ELSE IF retry.attempt = retry.max_attempts THEN "raised"
                ELSE "sleeping"
      error == IF e \in retryable_exceptions /\ status = "raised"
                 THEN "RetryExhaustedError"
               ELSE IF status = "raised" THEN e
               ELSE "none"
  IN /\ retry.status = "running"
     /\ retry' = [retry EXCEPT !.status = status,
                               !.outcomes = Append(@, outcome),
                               !.error = error]
     /\ raised' = (status = "raised")
     /\ exception' = IF status = "raised" THEN "ProviderError" ELSE "none"
     /\ UNCHANGED <<phase, storageVars, current, lastTurnSet, turnPosition,
                    runnerVars, pendingReflect, ingests, restarts, config, tasks, cache, closeLog,
                    unsaved, managerVars, recallResult>>

\* asyncio.sleep(delay) returns and the loop goes on to the next attempt
Backoff ==
  /\ retry.status = "sleeping"
  /\ retry' = [retry EXCEPT !.status = "running", !.attempt = @ + 1]
  /\ UNCHANGED <<phase, storageVars, current, lastTurnSet, turnPosition,
                 runnerVars, pendingReflect, ingests, restarts, config, tasks, cache, closeLog,
                 unsaved, managerVars, recallResult, raised, exception>>

\* One provider call at a time, under each max_retries up to the default.
NextRetry ==
  \/ \E m \in 1..max_retries : retry.status = "idle" /\ EmbedCall(m)
  \/ \E o \in RequestOutcomes : Attempt(o)
  \/ Backoff

SpecRetry == Init /\ [][NextRetry]_vars

\* The episode manager with a registered on-close callback that may raise:
\* closes by boundary rules and manual closes, over restarts.
CallbackOutcomes == {"none", "callback"}

NextCallback ==
  \/ Initialize
  \/ \E inp \in TurnInputs, gap \in BOOLEAN, fail \in CallbackOutcomes :
       ingests + restarts < MaxIngests /\ Ingest(inp[1], inp[2], gap, fail)
  \/ CloseEpisode
  \/ CloseCallbackRaises
  \/ (ingests + restarts < MaxIngests /\ Restart)

SpecCallback == Init /\ [][NextCallback]_vars

\* The facade of the acms package: no callback is registered, close_episode
\* reflects on the episode it closed before it returns.
NextSession ==
  \/ InitializeACMS
  \/ \E inp \in TurnInputs, gap \in BOOLEAN :
       /\ ingests < MaxIngests
       /\ pendingReflect = 0
       /\ Ingest(inp[1], inp[2], gap, "none")
  \/ (pendingReflect = 0 /\ CloseEpisode)
  \/ RunReflection
  \/ \E m \in 0..1 : ReflectReturn(m)
  \/ LegacyStep(9, 1, <<1, 0>>)
  \/ ReflectFail

SpecSession == Init /\ [][NextSession]_vars

\* Ingest with and without a markers argument, over contents that match a
\* marker pattern and contents that do not.
ExplicitMarkers == {<<>>, <<"decision">>, <<"goal", "decision", "goal">>,
                    <<"constraint", "constraint">>}
MarkerContents == {"hi", "Goal: ship"}

NextMarkers ==
  \/ Initialize
  \/ \E c \in MarkerContents, ex \in ExplicitMarkers :
       ingests < MaxIngests /\ IngestWith("user", c, ex, FALSE, "none")
  \/ CloseEpisode

SpecMarkers == Init /\ [][NextMarkers]_vars

\* The same calls under either setting of auto_detect_markers.
SpecConfigs == InitConfigs /\ [][NextMarkers]_vars

\* Ingest of valid and invalid arguments under a small max_content_length:
\* each call differs from a valid one in one argument.
SmallMaxContent == 12
ValidationCalls ==
  LET Str(x) == [type |-> "str", value |-> x]
      List(x) == [type |-> "list", value |-> x]
      NoArg == [type |-> "NoneType", value |-> <<>>]
      good == [role |-> Str("user"), content |-> Str("hi"),
               markers |-> NoArg, metadata |-> NoArg]
  IN {good,
      [role |-> Str("USER"), content |-> Str(" hi "),
       markers |-> List(<<"custom:x", "goal">>),
       metadata |-> [type |-> "dict", value |-> <<"str">>]],
      [good EXCEPT !.role = [type |-> "Role", value |-> "tool"]],
      [good EXCEPT !.role = Str("invalid_role")],
      [good EXCEPT !.role = [type |-> "NoneType", value |-> ""]],
      [good EXCEPT !.content = Str("")],
      [good EXCEPT !.content = Str("   ")],
      [good EXCEPT !.content = [type |-> "int", value |-> ""]],
      [good EXCEPT !.content = Str("Goal: ship it now")],
      [good EXCEPT !.markers = List(<<"urgent">>)],
      [good EXCEPT !.markers = List(<<"goal", "custom:">>)],
      [good EXCEPT !.metadata = List(<<>>)],
      [good EXCEPT !.metadata = [type |-> "dict", value |-> <<"str", "int">>]]}

InitValidation ==
  InitSession([DefaultConfig EXCEPT !.max_content_length = SmallMaxContent])

NextValidation ==
  \/ Initialize
  \/ \E call \in ValidationCalls, gap \in BOOLEAN, fail \in FailModes :
       ingests < MaxIngests /\ IngestCall(call, gap, fail)
  \/ CloseEpisode

SpecValidation == InitValidation /\ [][NextValidation]_vars

\* Carry-forward and flush: short and full episodes closed manually and by
\* the turn limit, reflection through both paths, the flush of the buffer
\* and failures of the reflection.
NextRunner ==
  \/ Initialize
  \/ /\ ingests < MaxFactIngests
     /\ pendingReflect = 0
     /\ Ingest("user", "hi", FALSE, "none")
  \/ (pendingReflect = 0 /\ CloseEpisode)
  \/ \E c \in BOOLEAN : ReflectEpisode(c, "zero", {})
  \/ \E e \in Indices(episodes), c \in BOOLEAN :
       pendingReflect = 0 /\ FlushCarriedTurns(e, c, "zero", {})
  \/ ReflectFail
  \/ \E n \in 0..1 : ConsolidateReturn(n)
  \/ \E m \in 0..1 : ReflectReturn(m)
  \/ ApplyKeep
  \/ LegacyStep(9, 1, <<1, 0>>)

SpecRunner == Init /\ [][NextRunner]_vars

\* Consolidation with the embeddings computed: scoping by similarity to
\* the episode embedding and the duplicate test of ADD, with deduplication
\* on (threshold 0.9) and off (threshold 1.0).
DedupThresholds == {9, 10}
UnitVectors == {<<1, 0>>, <<0, 1>>}

InitDedup ==
  \E th \in DedupThresholds :
    InitSession([DefaultConfig EXCEPT !.dedup_similarity_threshold = th])

NextDedup ==
  \/ Initialize
  \/ /\ ingests < MaxFactIngests
     /\ pendingReflect = 0
     /\ Ingest("user", "hi", FALSE, "none")
  \/ (pendingReflect = 0 /\ CloseEpisode)
  \/ \E r \in EmbedResults : ReflectEpisodeEmbedded(TRUE, r)
  \/ \E n \in 0..MaxActions : ConsolidateReturn(n)
  \/ \E m \in 0..MaxReturned : ReflectReturn(m)
  \/ ApplyKeep
  \/ \E conf \in Confidences, probe \in EmbedResults, saved \in EmbedResults :
       (saved.raised \/ saved.vec \in UnitVectors)
         /\ ApplyAddChecked(conf, 1, probe, saved)
  \/ \E emb \in UnitVectors \cup {<<>>} : LegacyStep(9, 1, emb)

SpecDedup == InitDedup /\ [][NextDedup]_vars

\* Recall ordering: plain and marked turns, with and without a stored
\* embedding, episodes closed by the turn limit, one fact per reflected
\* episode (legacy reflector), and one recall at the end.
OrderInputs == {<<"hi", "none">>, <<"Goal: ship", "none">>, <<"Goal: ship", "noemb">>}

NextOrder ==
  \/ (~recallResult.called /\ Initialize)
  \/ \E inp \in OrderInputs :
       /\ ~recallResult.called
       /\ ingests < MaxFactIngests
       /\ pendingReflect = 0
       /\ Ingest("user", inp[1], FALSE, inp[2])
  \/ ReflectEpisode(FALSE, "zero", {})
  \/ ReflectReturn(1)
  \/ LegacyStep(9, 1, <<1, 0>>)
  \/ \E q \in QueryVectors, b \in Budgets, inc \in BOOLEAN :
       ~recallResult.called /\ Recall(q, b, inc, 0)

SpecOrder == Init /\ [][NextOrder]_vars

\* A long session picked up by a new process: the storage holds
\* default_limit + 1 turns, ingested as plain user turns without failures
\* (episodes of max_turns turns each, closed by the max_turns rule), and the
\* facade has just been constructed over it.
LongSessionTurns == default_limit + 1
LongSessionEpisodes == ((LongSessionTurns - 1) \div max_turns) + 1

InitLongSession ==
  /\ phase = "new"
  /\ episodes =
       [e \in 1..LongSessionEpisodes |->
          IF e < LongSessionEpisodes
            THEN [status |-> "closed", turn_count |-> max_turns,
                  total_tokens |-> max_turns * TokenCount("hi"),
                  markers |-> <<>>, close_reason |-> "boundary_rule"]
            ELSE [status |-> "open",
                  turn_count |-> LongSessionTurns - (e - 1) * max_turns,
                  total_tokens |->
                    (LongSessionTurns - (e - 1) * max_turns) * TokenCount("hi"),
                  markers |-> <<>>, close_reason |-> "none"]]
  /\ turns =
       [i \in 1..LongSessionTurns |->
          [id |-> i,
           episode_id |-> ((i - 1) \div max_turns) + 1,
           role |-> "user",
           content |-> "hi",
           markers |-> <<>>,
           token_count |-> TokenCount("hi"),
           position |-> i - 1,
           has_embedding |-> TRUE,
           arrival |-> IF i = 1 THEN 1 ELSE ((i - 2) \div max_turns) + 1]]
  /\ facts = <<>>
  /\ current = 0
  /\ lastTurnSet = FALSE
  /\ turnPosition = 0
  /\ carried = <<>>
  /\ rpc = "idle"
  /\ rleft = 0
  /\ rprior = {}
  /\ repisode = 0
  /\ pendingReflect = 0
  /\ recallResult = NoRecall
  /\ ingests = 0
  /\ restarts = MaxRestarts
  /\ unsaved = [e \in 1..LongSessionEpisodes |-> [count |-> 0, tokens |-> 0]]
  /\ onClose = FALSE
  /\ callbackLog = <<>>
  /\ raised = FALSE
  /\ exception = "none"
  /\ rcall = NoCall
  /\ rlog = NoLog
  /\ config = DefaultConfig
  /\ retry = NoRetry
  /\ closeLog = NoClose
  /\ cache = NoCache
  /\ tasks = NoTasks

NextLongSession ==
  \/ Initialize
  \/ \E inp \in TurnInputs, gap \in BOOLEAN, fail \in IngestOutcomes :
       ingests < MaxIngests /\ Ingest(inp[1], inp[2], gap, fail)
  \/ CloseEpisode

SpecLongSession == InitLongSession /\ [][NextLongSession]_vars

\* ================================================================ claims

\* C1: after any sequence of initialize, ingest and close_episode calls the
\* storage holds at most one open episode, and a current-episode reference
\* held by the episode manager is that open episode.
C1_OneOpenEpisode ==
  /\ Cardinality(OpenEpisodes) <= 1
  /\ current # 0 => OpenEpisodes = {current}

\* a boundary close has happened and a later episode is open and current
C1_Witness ==
  /\ current # 0
  /\ OpenEpisodes = {current}
  /\ \E e \in Indices(episodes) :
       e < current /\ episodes[e].status = "closed"
                   /\ episodes[e].close_reason = "boundary_rule"

\* C2: the token counts of the items a recall call with budget B >= 1
\* returns sum to at most B.
C2_WithinBudget ==
  recallResult.called =>
    SumTokens(recallResult.items) <= recallResult.budget

\* a recall that returned a turn and a fact and used its budget up
C2_Witness ==
  /\ recallResult.called
  /\ \E i, j \in Indices(recallResult.items) :
       /\ recallResult.items[i].source = "turn"
       /\ recallResult.items[j].source = "fact"
  /\ SumTokens(recallResult.items) = recallResult.budget
  /\ \E f \in Indices(facts) :
       /\ facts[f].superseded_by = NoSup
       /\ \A i \in Indices(recallResult.items) :
            ~(recallResult.items[i].source = "fact" /\ recallResult.items[i].id = f)

\* C7: every item with source "fact" of a recall result is a fact whose
\* superseded_by is unset, and get_active_facts_by_session returns exactly
\* the facts with superseded_by unset.
C7_OnlyActiveFacts ==
  /\ Range(get_active_facts_by_session) =
       {f \in Indices(facts) : facts[f].superseded_by = NoSup}
  /\ recallResult.called =>
       \A i \in Indices(recallResult.items) :
         recallResult.items[i].source = "fact" =>
           /\ recallResult.items[i].id \in Indices(facts)
           /\ facts[recallResult.items[i].id].superseded_by = NoSup

\* a recall that returned a fact while a superseded fact is stored
C7_Witness ==
  /\ recallResult.called
  /\ \E i \in Indices(recallResult.items) : recallResult.items[i].source = "fact"
  /\ \E f \in Indices(facts) : facts[f].superseded_by # NoSup

\* C3: once a fact's superseded_by holds a value no later step overwrites
\* it, also when several UPDATE/REMOVE actions of one consolidation batch
\* name the same source_fact_id.
C3_SetAtMostOnce ==
  [][\A f \in Indices(facts) :
       facts[f].superseded_by # NoSup =>
         facts'[f].superseded_by = facts[f].superseded_by]_vars

\* C4: an UPDATE action with a source in the scoped prior set and confidence
\* >= min_confidence persists exactly one new fact, active and with
\* supersedes = [old.id], and sets the old fact's superseded_by to the new
\* fact's id, so the old fact is no longer active.
C4_UpdateSupersedes ==
  [][\A src \in rprior, conf \in Confidences, tok \in FactTokens,
        emb \in FactVectors :
       (rpc = "apply" /\ conf >= min_confidence
          /\ ApplyUpdate(src, conf, tok, emb)) =>
         LET new == Len(facts) + 1
         IN /\ Len(facts') = Len(facts) + 1
            /\ facts'[new].supersedes = <<facts[src].id>>
            /\ facts'[new].superseded_by = NoSup
            /\ facts'[src].superseded_by = SupFact(facts'[new].id)
            /\ \A f \in Indices(facts) \ {src} : facts'[f] = facts[f]
            /\ new \in Range(get_active_facts_by_session)'
            /\ src \notin Range(get_active_facts_by_session)']_vars

\* an old fact superseded by an active replacement that names it
C4_Witness ==
  \E old, new \in Indices(facts) :
    /\ facts[new].supersedes = <<old>>
    /\ facts[new].superseded_by = NoSup
    /\ facts[old].superseded_by = SupFact(new)
    /\ facts[new].episode_id # facts[old].episode_id

\* C5: a REMOVE action with a source in the scoped prior set persists no
\* new fact and sets the fact's superseded_by to removed_by_<id of the
\* episode under reflection>, so the fact is no longer active.
C5_RemoveSentinel ==
  [][\A src \in rprior :
       (rpc = "apply" /\ ApplyRemove(src)) =>
         /\ Len(facts') = Len(facts)
         /\ facts'[src].superseded_by = RemovedBy(repisode)
         /\ \A f \in Indices(facts) \ {src} : facts'[f] = facts[f]
         /\ src \notin Range(get_active_facts_by_session)']_vars

\* a fact removed by an episode closed after the one it came from
C5_Witness ==
  \E f \in Indices(facts) :
    /\ facts[f].superseded_by.kind = "removed"
    /\ facts[f].superseded_by.ref \in Indices(episodes)
    /\ facts[f].superseded_by.ref # facts[f].episode_id
    /\ facts[f].supersedes = <<>>

\* facts a fact's superseded_by link leads to
Successors(f) ==
  IF facts[f].superseded_by.kind = "fact" THEN {facts[f].superseded_by.ref} ELSE {}

RECURSIVE ReachableFrom(_, _)
ReachableFrom(S, n) ==
  IF n = 0 THEN S
  ELSE ReachableFrom(S \cup UNION {Successors(f) : f \in S}, n - 1)

\* C6: every superseded_by is unset, the id of another stored fact or
\* removed_by_<id of an episode>; no fact supersedes itself and following
\* superseded_by links never returns to a fact already visited.
C6_SupersessionAcyclic ==
  /\ \A f \in Indices(facts) :
       \/ facts[f].superseded_by = NoSup
       \/ /\ facts[f].superseded_by.kind = "fact"
          /\ facts[f].superseded_by.ref \in Indices(facts) \ {f}
       \/ /\ facts[f].superseded_by.kind = "removed"
          /\ facts[f].superseded_by.ref \in Indices(episodes)
  /\ \A f \in Indices(facts) :
       f \notin ReachableFrom(Successors(f), Len(facts))

\* one fact superseded by a replacement and another removed by sentinel
C6_Witness ==
  \E f, g \in Indices(facts) :
    /\ facts[f].superseded_by.kind = "fact"
    /\ facts[g].superseded_by.kind = "removed"

\* C8: every persisted turn has a position strictly greater than that of
\* every turn persisted before it, after successful and failed ingests and
\* after a new ingestion pipeline is initialized over stored turns.
C8_PositionsIncrease ==
  \A i \in 1..(Len(turns) - 1) : turns[i].position < turns[i + 1].position

RECURSIVE SumTurnTokens(_)
SumTurnTokens(ids) ==
  IF ids = <<>> THEN 0
  ELSE turns[Head(ids)].token_count + SumTurnTokens(Tail(ids))

\* C9 as stated: every episode's turn_count is the number of its persisted
\* turns and its total_tokens the sum of their token counts, also after an
\* ingest that fails at the embedding step or at save_turn.
C9_StatsMatchPersisted ==
  \A e \in Indices(episodes) :
    /\ episodes[e].turn_count = Len(get_turns_by_episode(e))
    /\ episodes[e].total_tokens = SumTurnTokens(get_turns_by_episode(e))

\* C9 amended: turn_count is the number of the episode's persisted turns
\* plus the number of ingests assigned to it that failed afterwards, and
\* total_tokens the sum of the token counts of all of these turns.
C9_StatsCountAssigned ==
  \A e \in Indices(episodes) :
    /\ episodes[e].turn_count =
         Len(get_turns_by_episode(e)) + unsaved[e].count
    /\ episodes[e].total_tokens =
         SumTurnTokens(get_turns_by_episode(e)) + unsaved[e].tokens

\* an episode holding a persisted turn and a turn whose ingest failed
C9_Witness ==
  \E e \in Indices(episodes) :
    /\ unsaved[e].count >= 1
    /\ Len(get_turns_by_episode(e)) >= 1
    /\ episodes[e].turn_count = Len(get_turns_by_episode(e)) + unsaved[e].count

C11_OnlyFullEpisodesClosed ==
  /\ \A e \in Indices(episodes) :
       episodes[e].close_reason \in {"none", "boundary_rule"}
  /\ \A i \in Indices(turns) :
       /\ turns[i].role = "user"
       /\ turns[i].content = "hi"
       /\ (turns[i].arrival # turns[i].episode_id)
            => episodes[turns[i].arrival].turn_count >= max_turns

C11_MaxTurnsBoundary ==
  /\ [](\A e \in Indices(episodes) : episodes[e].turn_count <= max_turns)
  /\ [][\A fail \in FailModes :
          (/\ current # 0
           /\ episodes[current].turn_count = max_turns
           /\ Ingest("user", "hi", FALSE, fail))
          => /\ episodes'[current].status = "closed"
             /\ episodes'[current].close_reason = "boundary_rule"
             /\ episodes'[current].turn_count = max_turns
             /\ current' = Len(episodes) + 1
             /\ episodes'[current'].status = "open"
             /\ episodes'[current'].turn_count = 1]_vars
  /\ []((/\ ingests = max_turns + 1
         /\ restarts = 0
         /\ Len(turns) = max_turns + 1
         /\ C11_OnlyFullEpisodesClosed)
        => /\ Len(episodes) = 2
           /\ episodes[1].status = "closed"
           /\ episodes[1].close_reason = "boundary_rule"
           /\ episodes[1].turn_count = max_turns
           /\ episodes[2].status = "open"
           /\ episodes[2].turn_count = 1)

\* a fresh session after N+1 plain ingests
C11_Witness ==
  /\ ingests = max_turns + 1
  /\ restarts = 0
  /\ Len(turns) = max_turns + 1
  /\ C11_OnlyFullEpisodesClosed
  /\ Len(episodes) = 2
  /\ episodes[1].close_reason = "boundary_rule"
  /\ turns[max_turns + 1].arrival = 1
  /\ turns[max_turns + 1].episode_id = 2

\* C12: once an episode is stored with status closed, no step (ingest,
\* close_episode, close, restart, initialize) changes its status,
\* turn_count, total_tokens or markers, and no turn persisted afterwards
\* carries its id.
C12_ClosedEpisodesImmutable ==
  [][\A e \in Indices(episodes) :
       episodes[e].status = "closed"
         => /\ episodes'[e].status = "closed"
            /\ episodes'[e].turn_count = episodes[e].turn_count
            /\ episodes'[e].total_tokens = episodes[e].total_tokens
            /\ episodes'[e].markers = episodes[e].markers
            /\ \A i \in Indices(turns') :
                 i > Len(turns) => turns'[i].episode_id # e]_vars

\* an episode closed by a boundary rule and one closed manually, with a turn
\* ingested after the first close
C12_Witness ==
  \E e, f \in Indices(episodes) :
    /\ e < f
    /\ episodes[e].status = "closed"
    /\ episodes[e].close_reason = "boundary_rule"
    /\ episodes[f].status = "closed"
    /\ episodes[f].close_reason = "manual"
    /\ \E i \in Indices(turns) : turns[i].arrival = e /\ turns[i].episode_id = f

\* C13: in the list a recall returns, the turns of the current episode
\* (when included) come first in chronological order, the marked turns of
\* earlier episodes next by descending final_score, and the facts and
\* vector-retrieved turns last, merged by descending final_score.
C13_RecallOrdering ==
  [][\A q \in QueryVectors, b \in Budgets, inc \in BOOLEAN :
       Recall(q, b, inc, 0) =>
         LET items == recallResult'.items
             IsTurn(it) == it.source = "turn"
             Part(it) ==
               IF inc /\ IsTurn(it) /\ turns[it.id].episode_id = current THEN 1
               ELSE IF /\ IsTurn(it)
                       /\ turns[it.id].markers # <<>>
                       /\ turns[it.id].episode_id # current THEN 2
               ELSE 3
         IN \A i, j \in 1..Len(items) :
              i < j =>
                /\ Part(items[i]) <= Part(items[j])
                /\ (Part(items[i]) = 1 /\ Part(items[j]) = 1)
                     => turns[items[i].id].position < turns[items[j].id].position
                /\ (Part(items[i]) = Part(items[j]) /\ Part(items[i]) > 1)
                     => items[i].score >= items[j].score]_vars

\* a result holding a current-episode turn, a marked turn of an earlier
\* episode, a fact and a vector-retrieved turn, in that order
C13_Witness ==
  /\ recallResult.called
  /\ \E i, j, k, l \in 1..Len(recallResult.items) :
       LET it(n) == recallResult.items[n]
       IN /\ i < j /\ j < k /\ k < l
          /\ it(i).source = "turn" /\ turns[it(i).id].episode_id = current
          /\ it(j).source = "turn" /\ turns[it(j).id].episode_id # current
          /\ turns[it(j).id].markers # <<>>
          /\ it(k).source = "fact"
          /\ it(l).source = "turn" /\ turns[it(l).id].markers = <<>>
          /\ turns[it(l).id].episode_id # current
          /\ it(k).score > it(l).score

\* C14: when the token counts of the current episode's turns add up to more
\* than the reservation int(B * current_episode_budget_pct), the emitted
\* current-episode items are the marked turns that fit, taken oldest first,
\* and the unmarked turns that fit into the rest, taken newest first; they
\* are emitted at the head of the result in chronological order and their
\* token counts add up to at most the reservation.
C14_OverflowSelection ==
  [][\A q \in QueryVectors, b \in Budgets :
       LET cur == get_turns_by_episode(current)
           res == (b * budget_pct_num) \div budget_pct_den
       IN (/\ Recall(q, b, TRUE, 0)
           /\ current # 0
           /\ SumTurnTokens(cur) > res) =>
            LET items == recallResult'.items
                FromCurrent(n) == /\ items[n].source = "turn"
                                  /\ turns[items[n].id].episode_id = current
                emitted == {items[n].id : n \in {m \in 1..Len(items) : FromCurrent(m)}}
                IsMarkedTurn(t) == turns[t].markers # <<>>
                Tok(S) == SumTurnTokens(Ascending(S))
                Before(t) == {u \in emitted : turns[u].position < turns[t].position}
                After(t) == {u \in emitted : turns[u].position > turns[t].position}
                markedKept == {u \in emitted : IsMarkedTurn(u)}
            IN /\ Tok(emitted) <= res
               /\ \A n \in 1..Len(items) : FromCurrent(n) <=> n <= Cardinality(emitted)
               /\ \A m, n \in 1..Cardinality(emitted) :
                    m < n => turns[items[m].id].position < turns[items[n].id].position
               /\ \A t \in Range(cur) :
                    IF IsMarkedTurn(t)
                      THEN t \in emitted <=>
                             Tok(Before(t) \cap markedKept) + turns[t].token_count <= res
                      ELSE t \in emitted <=>
                             Tok(markedKept) + Tok(After(t) \ markedKept)
                               + turns[t].token_count <= res]_vars

\* a recall over a current episode of two unmarked turns that exceed the
\* reservation, which returned only the newer one
C14_Witness ==
  /\ recallResult.called
  /\ current # 0
  /\ LET cur == get_turns_by_episode(current)
         res == (recallResult.budget * budget_pct_num) \div budget_pct_den
     IN /\ Len(cur) >= 2
        /\ SumTurnTokens(cur) > res
        /\ turns[cur[Len(cur)]].markers = <<>>
        /\ turns[cur[Len(cur) - 1]].markers = <<>>
        /\ recallResult.items # <<>>
        /\ recallResult.items[1].source = "turn"
        /\ recallResult.items[1].id = cur[Len(cur)]
        /\ \A n \in 1..Len(recallResult.items) :
             recallResult.items[n].source = "turn"
               => recallResult.items[n].id # cur[Len(cur) - 1]

\* C15: reflect_episode hands turns to the reflector only when the buffered
\* turns and the closing episode's turns together number at least
\* min_episode_turns; below that they all stay in the carry-forward buffer;
\* at the threshold the reflector is given the buffered turns followed by
\* the closing episode's turns, in their original order, and the buffer is
\* left empty.
C15_CarryForward ==
  /\ [](rcall.entry = "episode" => Len(rcall.turns) >= min_episode_turns)
  /\ [][(/\ rpc = "idle"
         /\ pendingReflect # 0
         /\ pendingReflect' = 0
         /\ restarts' = restarts) =>
          LET closing == get_turns_by_episode(pendingReflect)
          IN IF Len(carried) + Len(closing) < min_episode_turns
               THEN /\ rpc' = "idle"
                    /\ rcall' = NoCall
                    /\ carried' = carried \o closing
               ELSE /\ rpc' # "idle"
                    /\ rcall'.entry = "episode"
                    /\ rcall'.turns = carried \o closing
                    /\ carried' = <<>>
                    /\ \A i, j \in 1..Len(rcall'.turns) :
                         i < j => turns[rcall'.turns[i]].position
                                    < turns[rcall'.turns[j]].position]_vars

\* the reflector is running on a turn carried over from a short episode
\* followed by the turns of the episode that reached the threshold
C15_Witness ==
  /\ rcall.entry = "episode"
  /\ rpc # "idle"
  /\ carried = <<>>
  /\ Len(rcall.turns) > min_episode_turns
  /\ turns[rcall.turns[1]].episode_id < repisode
  /\ turns[rcall.turns[Len(rcall.turns)]].episode_id = repisode

C17_CallbackOncePerClose ==
  /\ [](\A e \in Indices(episodes) :
          Cardinality({k \in Indices(callbackLog) : callbackLog[k] = e})
            = IF episodes[e].status = "closed" THEN 1 ELSE 0)
  /\ [][callbackLog' # callbackLog =>
          /\ current # 0
          /\ callbackLog' = Append(callbackLog, current)
          /\ episodes[current].status = "open"
          /\ episodes'[current].status = "closed"]_vars
  /\ [][current = 0 /\ current' = 0 => callbackLog' = callbackLog]_vars

\* the callback has seen a boundary close and a manual close
C17_Witness ==
  /\ Len(callbackLog) >= 2
  /\ \E e, f \in Indices(episodes) :
       /\ e \in Range(callbackLog) /\ f \in Range(callbackLog)
       /\ episodes[e].close_reason = "boundary_rule"
       /\ episodes[f].close_reason = "manual"
  /\ current # 0

\* C18: when the on-close callback raises, the episode is still persisted
\* closed with its close reason and the exception does not leave
\* close_current_episode, nor the assign_episode call that made the close.
C18_CallbackFailureContained ==
  [][((\E inp \in TurnInputs, gap \in BOOLEAN :
         Ingest(inp[1], inp[2], gap, "callback"))
      \/ CloseCallbackRaises) =>
       /\ episodes'[current].status = "closed"
       /\ episodes'[current].close_reason # "none"
       /\ ~raised']_vars

\* C19: with reflection enabled, every step that closes an episode holding
\* at least min_episode_turns turns hands that episode to reflection,
\* whether the close is made by close_episode or by a boundary rule during
\* an ingest.
C19_EveryCloseReflected ==
  [][\A e \in Indices(episodes) :
       (/\ reflection_enabled
        /\ episodes[e].status = "open"
        /\ episodes'[e].status = "closed"
        /\ episodes'[e].turn_count >= min_episode_turns)
       => pendingReflect' = e]_vars

\* C20: an ingest given a non-empty markers argument, with auto-detection
\* enabled, persists a turn whose markers are the distinct markers of the
\* argument in the order of their first occurrence, and nothing detected
\* from the content is added.
C20_ExplicitMarkersOnly ==
  [][\A c \in MarkerContents, ex \in ExplicitMarkers \ {<<>>} :
       (auto_detect_markers /\ IngestWith("user", c, ex, FALSE, "none")) =>
         LET ms == turns'[Len(turns')].markers
             FirstAt(x) == CHOOSE i \in 1..Len(ex) :
                             ex[i] = x /\ \A j \in 1..(i - 1) : ex[j] # x
         IN /\ Len(turns') = Len(turns) + 1
            /\ Range(ms) = Range(ex)
            /\ \A i, j \in 1..Len(ms) :
                 i < j => /\ ms[i] # ms[j]
                          /\ FirstAt(ms[i]) < FirstAt(ms[j])]_vars

\* a turn whose content matches the goal pattern was persisted with a
\* repeated explicit list and with an explicit list that lacks the goal
C20_Witness ==
  \E i, j \in Indices(turns) :
    /\ turns[i].content = "Goal: ship"
    /\ turns[i].markers = <<"decision">>
    /\ turns[j].markers = <<"goal", "decision">>

\* C21: the marker list of every persisted turn holds no marker twice,
\* with auto_detect_markers on and off and for every markers argument that
\* ingest accepts.
C21_TurnMarkersUnique ==
  \A i \in Indices(turns) :
    \A j, k \in Indices(turns[i].markers) :
      j # k => turns[i].markers[j] # turns[i].markers[k]

\* C22: with dedup_similarity_threshold below 1.0 and an embedder that gives
\* equal, non-zero vectors for equal content, an ADD whose content is that of
\* a prior active fact with a stored embedding persists no fact; with the
\* threshold at 1.0 the duplicate test skips no ADD. (Equal content shows in
\* the model as the candidate's embedding being the fact's stored one.)
C22_DuplicateAddSkipped ==
  [][\A conf \in Confidences, probe \in EmbedResults, saved \in EmbedResults :
       ApplyAddChecked(conf, 1, probe, saved) =>
         /\ (/\ config.dedup_similarity_threshold < 10
             /\ ~probe.raised
             /\ probe.vec \in UnitVectors
             /\ \E f \in Range(get_active_facts_by_session) :
                  /\ facts[f].episode_id # repisode
                  /\ facts[f].has_embedding
                  /\ facts[f].embedding = probe.vec)
              => facts' = facts
         /\ (config.dedup_similarity_threshold >= 10 /\ conf >= min_confidence)
              => Len(facts') = Len(facts) + 1]_vars

\* C23: an UPDATE or REMOVE action whose source_fact_id is not in the scoped
\* prior-fact map changes no stored fact, creates none and raises nothing,
\* and the loop goes on with the remaining actions of the batch.
C23_UnknownSourceSkipped ==
  [][\A src \in 0..MaxFacts, conf \in Confidences, emb \in FactVectors :
       (/\ src \notin rprior
        /\ (ApplyUpdate(src, conf, 1, emb) \/ ApplyRemove(src)))
       => /\ facts' = facts
          /\ ~raised'
          /\ IF rleft > 1
               THEN /\ rpc' = "apply"
                    /\ rleft' = rleft - 1
                    /\ rprior' = rprior
                    /\ repisode' = repisode
               ELSE rpc' = "idle"]_vars

\* an action of the running batch was skipped for an unknown fact id while
\* stored facts exist, and an action remains to be applied
C23_Witness ==
  /\ rpc = "apply"
  /\ rlog.skipped >= 1
  /\ rleft >= 1
  /\ rprior # {}
  /\ facts # <<>>

\* C24: when the consolidation path is taken and the reflector returns no
\* action, the runner goes on to the legacy reflect with the same episode
\* and turns and changes nothing yet; the facts that reflect returns are
\* persisted as on the legacy path, and up to the end of the call no stored
\* fact changes, so no prior fact's superseded_by does.
C24_EmptyActionsFallBack ==
  /\ [][ConsolidateReturn(0) =>
          /\ rpc' = "reflect"
          /\ rcall' = rcall
          /\ repisode' = repisode
          /\ facts' = facts]_vars
  /\ [][(rlog.fallback /\ rpc \in {"reflect", "legacy"}) =>
          /\ \A f \in Indices(facts) : facts'[f] = facts[f]
          /\ \A conf \in Confidences, emb \in FactVectors :
               (conf >= min_confidence /\ LegacyStep(conf, 1, emb)) =>
                 /\ Len(facts') = Len(facts) + 1
                 /\ facts'[Len(facts')].episode_id = repisode
                 /\ facts'[Len(facts')].superseded_by = NoSup
                 /\ facts'[Len(facts')].supersedes = <<>>]_vars

\* after a fall-back the legacy loop has persisted a fact of the episode
\* under reflection beside an active fact of an earlier episode, and goes on
C24_Witness ==
  /\ rpc = "legacy"
  /\ rlog.fallback
  /\ \E f, g \in Range(get_active_facts_by_session) :
       /\ facts[f].episode_id # repisode
       /\ facts[g].episode_id = repisode

\* C25: the facts scoped for a consolidation are a subset of the prior
\* active facts, not empty when prior facts exist: all of them when embedding
\* the episode text fails, gives nothing or gives an all-zero vector;
\* otherwise every fact without an embedding and the embedded facts whose
\* similarity is at least consolidation_similarity_threshold, and all of
\* them when that selection is empty.
C25_ScopingNeverEmpty ==
  [][\A r \in EmbedResults :
       (ReflectEpisodeEmbedded(TRUE, r) /\ rpc' = "consolidate") =>
         LET prior == Range(get_active_facts_by_session)
             Near(f) == cosine_similarity(r.vec, facts[f].embedding)
                           >= config.consolidation_similarity_threshold
             selected == {f \in prior : ~facts[f].has_embedding \/ Near(f)}
         IN /\ prior # {}
            /\ rprior' \subseteq prior
            /\ rprior' # {}
            /\ (r.raised \/ r.vec = <<>> \/ IsZeroVector(r.vec)) => rprior' = prior
            /\ (~r.raised /\ r.vec \in UnitVectors) =>
                 /\ {f \in prior : ~facts[f].has_embedding} \subseteq rprior'
                 /\ selected # {} => rprior' = selected
                 /\ selected = {} => rprior' = prior]_vars

\* a consolidation was scoped to a fact without an embedding, leaving out an
\* active fact whose embedding is not similar to the episode's
C25_Witness ==
  /\ rpc = "consolidate"
  /\ \E f \in rprior : ~facts[f].has_embedding
  /\ \E g \in Range(get_active_facts_by_session) \ rprior : facts[g].has_embedding

\* C26: one reflection of a closing episode persists at most
\* max_facts_per_episode new facts, and every fact persisted has confidence
\* >= min_confidence, on the legacy path and on the consolidation path.
\* (Facts carry the id of the episode whose reflection saved them.)
C26_FactsPerReflectionCapped ==
  /\ \A f \in Indices(facts) : facts[f].confidence >= min_confidence
  /\ \A e \in Indices(episodes) :
       Cardinality({f \in Indices(facts) : facts[f].episode_id = e})
         <= config.max_facts_per_episode

\* C27: an ingest rejected by validation (invalid role, empty or
\* whitespace-only content, content longer than max_content_length, invalid
\* marker, non-dict metadata) raises ValidationError and leaves the open
\* episode's counters, the last-turn timestamp, the turn position counter
\* and storage unchanged.
C27_RejectedIngestRaisesValidationError ==
  [][\A call \in ValidationCalls, gap \in BOOLEAN, fail \in FailModes :
       (ingest_validation(call) # "none" /\ IngestCall(call, gap, fail))
         => /\ raised'
            /\ exception' = "ValidationError"
            /\ UNCHANGED <<episodes, current, lastTurnSet, turnPosition,
                           turns, facts, unsaved>>]_vars

C29_NullQueryNoVectorCandidates ==
  [][\A q \in NullQueries, b \in Budgets, inc \in BOOLEAN, rel \in {0, 5} :
       Recall(q, b, inc, rel)
         => recallResult'.items =
              allocate_budget(b,
                              IF inc THEN current_episode_candidates ELSE <<>>,
                              marked_candidates(q), fact_candidates(q),
                              <<>>)]_vars

\* C30: a provider call that fails with an HTTP 429 or 5xx response is
\* retried (up to max_attempts, with backoff) in the same way as a
\* connection or timeout failure; only non-retryable provider errors abort
\* the call on the first failure.
C30_RetryableStatusRetried ==
  [][\A o \in RequestOutcomes :
       (Attempt(o) /\ embed_request(o) # "none")
         => IF retryable(o) \/ embed_request(o) \in retryable_exceptions
              THEN retry'.status =
                     IF retry.attempt < retry.max_attempts THEN "sleeping"
                     ELSE "raised"
              ELSE retry'.status = "raised"]_vars

\* C31: after close() has returned, every call to ingest, recall,
\* close_episode or get_session_stats on that facade raises and changes no
\* stored state.
C31_ClosedFacadeRejectsCalls ==
  [][\A op \in FacadeOps :
       (closeLog.calls > 0 /\ pendingReflect = 0 /\ FacadeCall(op))
         => /\ raised'
            /\ UNCHANGED <<storageVars, current, turnPosition,
                           pendingReflect, closeLog>>]_vars

\* a call was rejected on a facade closed after turns were ingested
C31_Witness ==
  /\ phase = "closed"
  /\ raised
  /\ exception = "RuntimeError"
  /\ turns # <<>>
  /\ closeLog.storage_closes = 1

\* C32: close() is idempotent: a second and any further call closes no
\* episode, triggers no reflection, does not call storage.close again,
\* raises nothing and leaves stored state unchanged.
C32_CloseIdempotent ==
  [][(closeLog.calls > 0 /\ pendingReflect = 0 /\ CloseFacade)
       => /\ ~raised'
          /\ closeLog'.storage_closes = closeLog.storage_closes
          /\ UNCHANGED <<storageVars, current, pendingReflect, rpc, phase,
                         callbackLog>>]_vars

\* close() was called again on a facade whose first close closed an episode
C32_Witness ==
  /\ phase = "closed"
  /\ closeLog.calls >= 2
  /\ closeLog.storage_closes = 1
  /\ ~raised
  /\ \E e \in Indices(episodes) : episodes[e].close_reason = "session_close"

\* C33: after any sequence of put, get, delete and contains calls on an
\* LRUCache with max_size >= 1, size never exceeds max_size, and putting a
\* new key into a full cache evicts exactly the entry that was least
\* recently put or successfully got (updating an existing key changes its
\* value without changing size).
C33_LRUEviction ==
  [][/\ Len(cache'.entries) <= cache'.max_size
     /\ \A k \in CacheKeys, v \in CacheValues :
          LRUCache_put(k, v) =>
            LET es == cache.entries
                new == cache'.entries
                keys == {es[i].key : i \in Indices(es)}
                lru == {es[i].key : i \in {j \in Indices(es) :
                          \A h \in Indices(es) : es[j].used <= es[h].used}}
            IN /\ \E i \in Indices(new) : new[i].key = k /\ new[i].value = v
               /\ {new[i].key : i \in Indices(new)} =
                    IF k \in keys THEN keys
                    ELSE IF Len(es) = cache.max_size
                      THEN (keys \ lru) \cup {k}
                    ELSE keys \cup {k}
               /\ Len(new) = Cardinality({new[i].key : i \in Indices(new)})
               /\ cache'.evicted =
                    IF k \notin keys /\ Len(es) = cache.max_size THEN lru
                    ELSE {}]_vars

\* a put into a full cache evicted the entry put second, because the entry
\* put first had been got since
C33_Witness ==
  /\ cache.max_size = 2
  /\ Len(cache.entries) = 2
  /\ cache.evicted # {}
  /\ \E i \in Indices(cache.entries) :
       /\ cache.entries[i].used < cache.clock
       /\ cache.entries[i].used > 2

\* C34: when two ingest calls on one session interleave at their awaits, the
\* turns they persist have distinct positions.
C34_InterleavedPositionsDistinct ==
  \A i, j \in Indices(turns) :
    i # j => turns[i].position # turns[j].position

\* C35: when two ingest calls interleave while a boundary rule fires, the
\* on-close callback is invoked once for the closing episode and one new
\* open episode is created: storage never holds two open episodes.
C35_InterleavedCloseOnce ==
  /\ \A i, j \in Indices(callbackLog) :
       i # j => callbackLog[i] # callbackLog[j]
  /\ Cardinality(OpenEpisodes) <= 1

\* C36: when two background reflections of one session overlap, no prior
\* fact is replaced twice: at most one active fact lists a given old fact in
\* supersedes, and the old fact's superseded_by is written only once.
C36_OverlapReplacesOnce ==
  [][/\ \A old \in Indices(facts') :
          Cardinality({f \in Indices(facts') :
                         /\ facts'[f].superseded_by = NoSup
                         /\ \E i \in Indices(facts'[f].supersedes) :
                              facts'[f].supersedes[i] = old}) <= 1
     /\ \A old \in Indices(facts) :
          facts[old].superseded_by # NoSup =>
            facts'[old].superseded_by = facts[old].superseded_by]_vars

\* C37: when a reflection started by reflect_episode fails, the turns it was
\* reflecting on are still in the carry-forward buffer afterwards.
C37_FailedReflectionKeepsTurns ==
  [][(ReflectFail /\ rcall.entry = "episode")
       => \A i \in Indices(rcall.turns) :
            \E j \in Indices(carried') : carried'[j] = rcall.turns[i]]_vars

\* C38: a boundary rule never closes an episode that holds no turns: every
\* episode closed with reason boundary_rule has turn_count >= 1.
C38_BoundaryClosesNonEmpty ==
  \A e \in Indices(episodes) :
    (episodes[e].status = "closed" /\ episodes[e].close_reason = "boundary_rule")
      => episodes[e].turn_count >= 1

\* C39: initializing over storage that holds an open episode adopts it and
\* creates none; otherwise exactly one new open episode is created; either
\* way the session has one open episode afterwards.
C39_InitializeAdoptsOrCreatesOne ==
  [][(phase = "new" /\ phase' = "ready")
       => /\ IF OpenEpisodes # {}
               THEN /\ episodes' = episodes
                    /\ current' \in OpenEpisodes
               ELSE /\ Len(episodes') = Len(episodes) + 1
                    /\ \A e \in Indices(episodes) : episodes'[e] = episodes[e]
                    /\ episodes'[Len(episodes')].status = "open"
                    /\ current' = Len(episodes')
          /\ Cardinality({e \in Indices(episodes') :
                            episodes'[e].status = "open"}) = 1]_vars

\* a restarted session adopted the open episode that holds its first turn
C39_Witness ==
  /\ restarts = 1
  /\ phase = "ready"
  /\ Len(episodes) = 1
  /\ current = 1
  /\ episodes[1].status = "open"
  /\ episodes[1].turn_count >= 1

\* C40: with dedup enabled and an embedder that gives equal content equal
\* non-zero vectors, a consolidation batch leaves no two active facts with
\* identical content: an ADD never saves a fact whose content is that of
\* another active fact (content is told by the stored embedding).
C40_BatchLeavesNoDuplicateContent ==
  [][\A conf \in Confidences, r \in EmbedResults :
       (/\ config.dedup_similarity_threshold < 10
        /\ ~r.raised
        /\ r.vec \in UnitVectors
        /\ ApplyAddChecked(conf, 1, r, r)
        /\ Len(facts') = Len(facts) + 1)
         => \A f \in Indices(facts) :
              (facts'[f].superseded_by = NoSup /\ facts'[f].has_embedding)
                => facts'[f].embedding # r.vec]_vars

====
